---------------------------- MODULE Spec2Model ----------------------------
(***************************************************************************)
(* Model of the agent-process streaming proxy of levered-client:           *)
(*   ClaudeManager  (packages/client/src/components/LeveredProvider.tsx,   *)
(*                   lines 1473-1860): one agent process per message,      *)
(*                   busy flag, continuation token, stop/restart;          *)
(*   OutputParser   (unnamed/part_002): the buffered line decoder;         *)
(*   SSEManager     (unnamed/part_001): the subscriber map and broadcast.  *)
(*                                                                         *)
(* Text is modelled as a sequence of tokens.  A token is a character of    *)
(* the output ("{", "}", newline, blank) or the characters of one          *)
(* key/value pair of a record, abbreviated to one letter.  JSON.parse      *)
(* accepts exactly "{" pair* "}" with optional surrounding blanks, so a    *)
(* fragment of a record fails to parse, as a fragment of a JSON object     *)
(* does.                                                                   *)
(***************************************************************************)
EXTENDS Integers, Sequences, FiniteSets, TLC

VARIABLES
  cm,          \* ClaudeManager fields: isStarted, isProcessing, sessionId,
               \* currentProcess, lastActivity
  procs,       \* the ChildProcess objects spawned so far
  nSpawned,    \* number of spawn() calls that returned a ChildProcess
  stops,       \* the stop()/restart() calls made so far
  nStops,      \* number of stop()/restart() calls that entered the wait
  emitted,     \* what the operation that ran last handed to the "event"
               \* listener, in order
  tokenSeen,   \* history: session id of the last parsed record carrying one
  cleared,     \* history: restart() resolved and no sendMessage accepted since
  op,          \* the operation or callback that ran last, with its result
  decRest,     \* decoder harness: the part of the output not yet fed
  decWhole,    \* decoder harness: the whole output
  cmDecoded,   \* decoder harness: events of ClaudeManager.parseJsonStream
  opBuffer,    \* OutputParser.jsonBuffer
  opDecoded,   \* decoder harness: events of OutputParser.parseJsonStream
  parser,      \* an OutputParser: isJsonMode, buffer, jsonBuffer
  twin,        \* history: an OutputParser constructed when `parser` was
               \* reset last and handed the same chunks since
  returned,    \* what the last parse() returned, for parser and twin, its
               \* argument, and the number of parse() calls so far
  clients,     \* SSEManager.clients, in Map insertion order
  sinks,       \* the Response objects handed to addClient
  nClients,    \* number of client ids generated so far
  bcast,       \* history: the events passed to broadcast and sendToClient
  sseOp        \* the SSEManager operation that ran last, with its result

mgrVars == <<cm, procs, nSpawned, stops, nStops, emitted, tokenSeen,
             cleared, op>>
decVars == <<decRest, decWhole, cmDecoded, opBuffer, opDecoded, parser,
             twin, returned>>
sseVars == <<clients, sinks, nClients, bcast, sseOp>>
vars == <<mgrVars, decVars, sseVars>>

\* JavaScript null / undefined
Null == "<null>"

\* x || d
OrElse(x, d) == IF x = Null \/ x = "" THEN d ELSE x

-----------------------------------------------------------------------------
(* Text *)

LB == "{"
RB == "}"
NL == "\n"
SP == " "

\* the key/value pairs a record can carry; "B" is the pair of an assistant
\* record with its list of content blocks, and each of "t", "x", "u", "i"
\* is one more block of that list
PairTokens ==
  {"a", "b", "c", "A", "U", "M", "E", "R", "S", "B", "t", "x", "u", "i"}

RECURSIVE SplitAcc(_, _, _)
SplitAcc(s, cur, acc) ==
  IF s = <<>> THEN Append(acc, cur)
  ELSE IF Head(s) = NL THEN SplitAcc(Tail(s), <<>>, Append(acc, cur))
  ELSE SplitAcc(Tail(s), Append(cur, Head(s)), acc)

\* String.prototype.split("\n")
Split(s) == SplitAcc(s, <<>>, <<>>)

RECURSIVE TrimLeft(_)
TrimLeft(s) ==
  IF s # <<>> /\ Head(s) \in {SP, NL} THEN TrimLeft(Tail(s)) ELSE s

RECURSIVE TrimRight(_)
TrimRight(s) ==
  IF s # <<>> /\ s[Len(s)] \in {SP, NL}
  THEN TrimRight(SubSeq(s, 1, Len(s) - 1)) ELSE s

\* String.prototype.trim()
Trim(s) == TrimRight(TrimLeft(s))

RECURSIVE Concat(_)
Concat(chunks) ==
  IF chunks = <<>> THEN <<>> ELSE Head(chunks) \o Concat(Tail(chunks))

-----------------------------------------------------------------------------
(* JSON.parse *)

Block(t, v) == [type |-> t, val |-> v]

EmptyData ==
  [type |-> Null, session_id |-> Null, sessionId |-> Null, blocks |-> Null,
   content |-> Null, text |-> Null, error |-> Null]

\* the keys one pair sets
SetPair(d, tok) ==
  CASE tok = "a" -> [d EXCEPT !.session_id = "abc"]
    [] tok = "b" -> [d EXCEPT !.session_id = "xyz"]
    [] tok = "c" -> [d EXCEPT !.sessionId = "cam"]
    [] tok = "A" -> [d EXCEPT !.type = "assistant",
                              !.blocks = <<Block("thinking", "x"),
                                           Block("text", "y")>>]
    [] tok = "U" -> [d EXCEPT !.type = "user",
                              !.blocks = <<Block("tool_result", "r")>>]
    [] tok = "M" -> [d EXCEPT !.type = "message", !.content = "hi"]
    [] tok = "E" -> [d EXCEPT !.type = "error", !.error = "boom"]
    [] tok = "R" -> [d EXCEPT !.type = "result"]
    [] tok = "S" -> [d EXCEPT !.type = "system", !.content = "raw"]
    [] tok = "B" -> [d EXCEPT !.type = "assistant", !.blocks = <<>>]
    [] tok = "t" -> [d EXCEPT !.blocks = Append(OrElse(@, <<>>),
                                                Block("thinking", "x"))]
    [] tok = "x" -> [d EXCEPT !.blocks = Append(OrElse(@, <<>>),
                                                Block("text", "y"))]
    [] tok = "u" -> [d EXCEPT !.blocks = Append(OrElse(@, <<>>),
                                                Block("tool_use", "n"))]
    [] tok = "i" -> [d EXCEPT !.blocks = Append(OrElse(@, <<>>),
                                                Block("image", "z"))]
    [] OTHER -> d

RECURSIVE SetPairs(_, _)
SetPairs(d, body) ==
  IF body = <<>> THEN d ELSE SetPairs(SetPair(d, Head(body)), Tail(body))

\* does JSON.parse(line) return (TRUE) or throw (FALSE)
JsonOk(line) ==
  LET t == Trim(line) IN
    /\ Len(t) >= 2
    /\ t[1] = LB
    /\ t[Len(t)] = RB
    /\ \A i \in 2..(Len(t) - 1) : t[i] \in PairTokens

\* JSON.parse(line) when it returns
JsonParse(line) ==
  LET t == Trim(line) IN SetPairs(EmptyData, SubSeq(t, 2, Len(t) - 1))

-----------------------------------------------------------------------------
(* Events *)

ContentEvent(t, c) == [type |-> t, content |-> c]
ToolUseEvent(n) == [type |-> "tool_use", name |-> n]
ErrorEvent(e) == [type |-> "error", error |-> e]
CompletedEvent == [type |-> "completed"]
StatusEvent(status, details) ==
  [type |-> "status", status |-> status, details |-> details]
RawOutputEvent(chunk) == [type |-> "raw_output", raw |-> chunk]

-----------------------------------------------------------------------------
(* ClaudeManager: decoding *)

\* contentBlockToEvent: the events of one content block (none when null)
ContentBlockToEvent(block) ==
  CASE block.type = "thinking" ->
         <<ContentEvent("thinking", OrElse(block.val, ""))>>
    [] block.type = "text" ->
         <<ContentEvent("message", OrElse(block.val, ""))>>
    [] block.type = "tool_use" ->
         <<ToolUseEvent(OrElse(block.val, ""))>>
    [] OTHER -> <<>>

\* jsonToEvent: the events of a record of another format (none when null)
JsonToEvent(d) ==
  CASE d.type = "thinking" ->
         <<ContentEvent("thinking", OrElse(d.content, ""))>>
    [] d.type = "tool_use" ->
         <<ToolUseEvent("")>>
    [] d.type = "tool_result" ->
         <<ContentEvent("tool_result", OrElse(d.content, ""))>>
    [] d.type \in {"message", "content"} \/ OrElse(d.text, Null) # Null ->
         <<ContentEvent("message", OrElse(d.content, OrElse(d.text, "")))>>
    [] d.type = "error" ->
         <<ErrorEvent(OrElse(d.error, ""))>>
    [] OrElse(d.content, OrElse(d.text, Null)) # Null ->
         <<ContentEvent("raw_output", OrElse(d.content, OrElse(d.text, "")))>>
    [] OTHER -> <<>>

\* the loop over the content blocks emitting the last block first
RECURSIVE AssistantEventsReversed(_)
AssistantEventsReversed(blocks) ==
  IF blocks = <<>> THEN <<>>
  ELSE AssistantEventsReversed(Tail(blocks))
         \o ContentBlockToEvent(Head(blocks))

\* parseJsonStream: the loop over the content blocks of an assistant record
RECURSIVE AssistantEvents(_)
AssistantEvents(blocks) ==
  IF blocks = <<>> THEN <<>>
  ELSE ContentBlockToEvent(Head(blocks)) \o AssistantEvents(Tail(blocks))

RECURSIVE UserEvents(_)
UserEvents(blocks) ==
  IF blocks = <<>> THEN <<>>
  ELSE (IF Head(blocks).type = "tool_result"
        THEN <<ContentEvent("tool_result", OrElse(Head(blocks).val, ""))>>
        ELSE <<>>) \o UserEvents(Tail(blocks))

\* the events parseJsonStream emits for one parsed record
RecordEvents(d) ==
  IF d.type = "assistant" /\ d.blocks # Null THEN AssistantEvents(d.blocks)
  ELSE IF d.type = "user" /\ d.blocks # Null THEN UserEvents(d.blocks)
  ELSE JsonToEvent(d)

\* the session id captured only while none is stored
CaptureFirstSessionId(d, sid) ==
  IF sid = Null THEN OrElse(d.session_id, d.sessionId) ELSE sid

\* the session id parseJsonStream stores after one parsed record
CaptureSessionId(d, sid) ==
  LET newSessionId == OrElse(d.session_id, d.sessionId) IN
    IF newSessionId # Null
    THEN (IF newSessionId # sid THEN newSessionId ELSE sid)
    ELSE sid

\* the loop of parseJsonStream left at the first line that fails to parse
RECURSIVE ParseLinesUntilFailure(_, _, _)
ParseLinesUntilFailure(lines, i, acc) ==
  IF i > Len(lines) THEN acc
  ELSE IF Trim(lines[i]) = <<>>
       THEN ParseLinesUntilFailure(lines, i + 1, acc)
  ELSE IF JsonOk(lines[i])
       THEN LET d == JsonParse(lines[i]) IN
              ParseLinesUntilFailure(lines, i + 1,
                [sessionId |-> CaptureSessionId(d, acc.sessionId),
                 events |-> acc.events \o RecordEvents(d)])
       ELSE acc

\* the body of the loop of parseJsonStream, for the lines from index i on
RECURSIVE ParseLines(_, _, _)
ParseLines(lines, i, acc) ==
  IF i > Len(lines) THEN acc
  ELSE IF Trim(lines[i]) = <<>> THEN ParseLines(lines, i + 1, acc)
  ELSE IF JsonOk(lines[i])
       THEN LET d == JsonParse(lines[i]) IN
              ParseLines(lines, i + 1,
                [sessionId |-> CaptureSessionId(d, acc.sessionId),
                 events |-> acc.events \o RecordEvents(d)])
       ELSE ParseLines(lines, i + 1, acc)

\* ClaudeManager.parseJsonStream(chunk) with this.sessionId = sid:
\* the session id it leaves and the events it emits, in order
ParseJsonStream(chunk, sid) ==
  ParseLines(Split(chunk), 1, [sessionId |-> sid, events |-> <<>>])

-----------------------------------------------------------------------------
(* OutputParser: JSON mode *)

\* OutputParser.jsonToEvent
OPJsonToEvent(d) ==
  CASE d.type = "thinking" ->
         <<ContentEvent("thinking", OrElse(d.content, OrElse(d.text, "")))>>
    [] d.type = "tool_use" ->
         <<ToolUseEvent("")>>
    [] d.type = "tool_result" ->
         <<ContentEvent("tool_result", OrElse(d.content, ""))>>
    [] d.type \in {"message", "text"} ->
         <<ContentEvent("message", OrElse(d.content, OrElse(d.text, "")))>>
    [] d.type = "error" ->
         <<ErrorEvent(OrElse(d.error, ""))>>
    [] d.type \in {"complete", "completed"} ->
         <<CompletedEvent>>
    [] OTHER -> <<>>

RECURSIVE OPParseLines(_, _, _)
OPParseLines(lines, i, acc) ==
  IF i > Len(lines) THEN acc
  ELSE IF Trim(lines[i]) = <<>> THEN OPParseLines(lines, i + 1, acc)
  ELSE IF JsonOk(lines[i])
       THEN OPParseLines(lines, i + 1,
                         acc \o OPJsonToEvent(JsonParse(lines[i])))
       ELSE OPParseLines(lines, i + 1, acc)

\* OutputParser.parseJsonStream(chunk) with this.jsonBuffer = buf:
\* the buffer it leaves and the events it returns
OPParseJsonStream(chunk, buf) ==
  LET lines == Split(buf \o chunk)
      complete == SubSeq(lines, 1, Len(lines) - 1)
  IN [jsonBuffer |-> lines[Len(lines)],
      events |-> OPParseLines(complete, 1, <<>>)]

\* OutputParser.parse(rawOutput) of a parser constructed with jsonMode = true
OPParse(chunk, buf) ==
  LET r == OPParseJsonStream(chunk, buf) IN
    [jsonBuffer |-> r.jsonBuffer,
     events |-> r.events \o <<RawOutputEvent(chunk)>>]

-----------------------------------------------------------------------------
(* OutputParser: text mode, parse and reset *)

\* pieces of text-mode output: the tags of the blocks, the prefix of an
\* assistant message, an ANSI escape sequence and a word.  No input has a
\* <tool_use> tag, so the pattern of tool use never matches.
TO == "<thinking>"
TC == "</thinking>"
RO == "<tool_result>"
RC == "</tool_result>"
AS == "Assistant: "
ESC == "ESC[0m"
WORD == "w"

\* the tokens that begin with "<"
TagTokens == {TO, TC, RO, RC}

\* stripAnsi(rawOutput)
StripAnsi(chunk) == SelectSeq(chunk, LAMBDA t : t # ESC)

\* the first index from i on at which s has tok, 0 when there is none
RECURSIVE IndexFrom(_, _, _)
IndexFrom(s, tok, i) ==
  IF i > Len(s) THEN 0
  ELSE IF s[i] = tok THEN i
  ELSE IndexFrom(s, tok, i + 1)

\* buffer.match(/<open>([\s\S]*?)<close>/): the indices of the two tags of
\* the leftmost match, <<>> when nothing matches
TagMatch(buf, open, close) ==
  LET i == IndexFrom(buf, open, 1)
      j == IF i = 0 THEN 0 ELSE IndexFrom(buf, close, i + 1)
  IN IF j = 0 THEN <<>> ELSE <<i, j>>

\* buffer.match(/^Assistant: (.*?)(?=\n<|$)/s): the index of the last token
\* of the shortest match that ends at k or later
RECURSIVE AssistantEnd(_, _)
AssistantEnd(buf, k) ==
  IF k >= Len(buf) THEN Len(buf)
  ELSE IF buf[k + 1] = NL /\ k + 2 <= Len(buf) /\ buf[k + 2] \in TagTokens
       THEN k
  ELSE AssistantEnd(buf, k + 1)

\* extractNextEvent with this.buffer = buf: the event it returns (none when
\* null) and the buffer it leaves
OPExtractNextEvent(buf) ==
  LET th == TagMatch(buf, TO, TC)
      tr == TagMatch(buf, RO, RC)
  IN IF th # <<>>
     THEN [event |-> <<ContentEvent("thinking",
                                    Trim(SubSeq(buf, th[1] + 1, th[2] - 1)))>>,
           buffer |-> SubSeq(buf, th[2] + 1, Len(buf))]
     ELSE IF tr # <<>>
     THEN [event |-> <<ContentEvent("tool_result",
                                    Trim(SubSeq(buf, tr[1] + 1, tr[2] - 1)))>>,
           buffer |-> SubSeq(buf, tr[2] + 1, Len(buf))]
     ELSE IF buf # <<>> /\ buf[1] = AS
     THEN LET k == AssistantEnd(buf, 1) IN
            [event |-> <<ContentEvent("message", Trim(SubSeq(buf, 2, k)))>>,
             buffer |-> SubSeq(buf, k + 1, Len(buf))]
     ELSE [event |-> <<>>, buffer |-> buf]

\* parseTextOutput: the loop over extractNextEvent
RECURSIVE OPExtractAll(_, _)
OPExtractAll(buf, acc) ==
  LET r == OPExtractNextEvent(buf) IN
    IF r.event = <<>> THEN [buffer |-> buf, events |-> acc]
    ELSE OPExtractAll(r.buffer, acc \o r.event)

\* OutputParser.parseTextOutput(rawOutput) with this.buffer = buf
OPParseTextOutput(chunk, buf) == OPExtractAll(buf \o StripAnsi(chunk), <<>>)

\* new OutputParser(jsonMode)
NewParser(jsonMode) ==
  [isJsonMode |-> jsonMode, buffer |-> <<>>, jsonBuffer |-> <<>>]

\* OutputParser.parse(rawOutput) on the parser ps: the parser afterwards and
\* the events returned
OPParseWith(ps, chunk) ==
  IF ps.isJsonMode
  THEN LET r == OPParseJsonStream(chunk, ps.jsonBuffer) IN
         [parser |-> [ps EXCEPT !.jsonBuffer = r.jsonBuffer],
          events |-> r.events \o <<RawOutputEvent(chunk)>>]
  ELSE LET r == OPParseTextOutput(chunk, ps.buffer) IN
         [parser |-> [ps EXCEPT !.buffer = r.buffer],
          events |-> r.events \o <<RawOutputEvent(chunk)>>]

\* reset() clearing only the buffer of the text mode
OPResetKeepingJsonBuffer(ps) == [ps EXCEPT !.buffer = <<>>]

\* OutputParser.reset()
OPReset(ps) == [ps EXCEPT !.buffer = <<>>, !.jsonBuffer = <<>>]

-----------------------------------------------------------------------------
(* Bounds *)

MaxProcs == 2      \* processes spawned in one behaviour
MaxStops == 1      \* stop()/restart() calls that enter the grace-period wait
MaxClients == 3    \* subscribers registered in one behaviour
MaxPushes == 3     \* broadcast and sendToClient calls in one behaviour
MaxChats == 2      \* POST /chat requests in one behaviour of the server
MaxBlocks == 3     \* content blocks of an assistant record
MaxLines == 3      \* lines of an output of mixed records
MaxFeeds == 3      \* parse() calls on one OutputParser
MaxResets == 1     \* POST /reset requests served in one behaviour

-----------------------------------------------------------------------------
(* ClaudeManager: state *)

\* the outputs a process can write to stdout, as the chunks "data" delivers
Outputs ==
  { <<>>,
    << <<LB, "a", "M", RB, NL, LB, "R", RB, NL>> >>,
    << <<LB, "b", "M", RB, NL>> >> }

\* the exit codes; an exit on a signal (code null) takes the branch of "1"
ExitCodes == {"0", "1"}

\* a ChildProcess: failing says that an error event was emitted for its job
\* and the process still runs (history); state is "none" (not spawned yet),
\* "running", "failed"
\* (spawn failed, "error" not yet delivered) or "done" (exited, or the spawn
\* failure delivered); out is the output "data" has not delivered yet
NoProc == [state |-> "none", out |-> <<>>, failing |-> FALSE]

\* the "error" handler of sendMessage has run for the running process p
Failing(ps, p) == [ps EXCEPT ![p].failing = TRUE]

\* a stop() call: state is "none", "waiting", "resuming" (the promise is
\* resolved and the continuation of its caller is a queued microtask) or
\* "resolved"; timer says that the setTimeout is pending; armed says that
\* its once("exit") handler is registered on a process that can still exit
NoStop ==
  [state |-> "none", kind |-> Null, proc |-> 0, timer |-> FALSE,
   armed |-> FALSE]

\* a stop() call that has resolved and whose handlers are gone
StopDone == [NoStop EXCEPT !.state = "resolved"]

Idle == [name |-> "init", result |-> Null, proc |-> 0, args |-> <<>>]

MgrInit ==
  /\ cm = [isStarted |-> FALSE, isProcessing |-> FALSE, sessionId |-> Null,
           currentProcess |-> 0, lastActivity |-> 0]
  /\ procs = [p \in 1..MaxProcs |-> NoProc]
  /\ nSpawned = 0
  /\ stops = [s \in 1..MaxStops |-> NoStop]
  /\ nStops = 0
  /\ emitted = <<>>
  /\ tokenSeen = Null
  /\ cleared = FALSE
  /\ op = Idle

\* a promise was resolved and the continuation of its awaiter is queued:
\* it runs before any other callback or request
MicrotaskQueued == \E s \in 1..MaxStops : stops[s].state = "resuming"

\* isBusy()
IsBusy == cm.isProcessing

\* isAlive()
IsAlive == cm.isStarted

\* getSessionId()
GetSessionId == cm.sessionId

\* this.emit("event", ev) for each ev, by a callback of job p; src names
\* the callback
Tag(p, src, evs) ==
  [i \in 1..Len(evs) |-> [job |-> p, src |-> src, ev |-> evs[i]]]

\* history: the session ids carried by the parsed records of a chunk
RECURSIVE CarriedIds(_, _)
CarriedIds(lines, i) ==
  IF i > Len(lines) THEN <<>>
  ELSE (IF Trim(lines[i]) # <<>> /\ JsonOk(lines[i])
           /\ OrElse(JsonParse(lines[i]).session_id,
                     JsonParse(lines[i]).sessionId) # Null
        THEN <<OrElse(JsonParse(lines[i]).session_id,
                      JsonParse(lines[i]).sessionId)>>
        ELSE <<>>) \o CarriedIds(lines, i + 1)

LastCarried(chunk, before) ==
  LET ids == CarriedIds(Split(chunk), 1) IN
    IF ids = <<>> THEN before ELSE ids[Len(ids)]

-----------------------------------------------------------------------------
(* ClaudeManager: start and sendMessage *)

\* Date.now(): a logical time, which advances with every spawn
DateNow == nSpawned + 1

\* start(), called once by ProxyServer.start before any request is served
Start ==
  /\ ~cm.isStarted
  /\ cm' = [cm EXCEPT !.lastActivity = DateNow, !.isStarted = TRUE]
  /\ op' = [Idle EXCEPT !.name = "start"]
  /\ emitted' = <<>>
  /\ UNCHANGED <<procs, nSpawned, stops, nStops, tokenSeen, cleared>>
  /\ UNCHANGED <<decVars, sseVars>>

\* the guard of sendMessage left out
BusyRejectsNever(c) == FALSE

\* sendMessage: the guard that throws "currently processing another message"
BusyRejects(c) == c.isProcessing

BaseArgs ==
  <<"--print", "--output-format", "stream-json", "--verbose",
    "--permission-mode", "bypassPermissions">>

\* sendMessage: the arguments of the spawned process
SpawnArgs(sid) ==
  IF OrElse(sid, Null) # Null THEN BaseArgs \o <<"--continue", sid>>
  ELSE BaseArgs

HasContinue(args) == \E i \in 1..Len(args) : args[i] = "--continue"

\* the token that follows the --continue flag, Null without the flag
ContinueToken(args) ==
  IF HasContinue(args)
  THEN args[(CHOOSE i \in 1..Len(args) : args[i] = "--continue") + 1]
  ELSE Null

\* sendMessage(message) rejected
SendMessageBusy ==
  /\ ~MicrotaskQueued
  /\ cm.isStarted
  /\ BusyRejects(cm)
  /\ op' = [Idle EXCEPT !.name = "sendMessage", !.result = "Busy"]
  /\ emitted' = <<>>
  /\ UNCHANGED <<cm, procs, nSpawned, stops, nStops, tokenSeen, cleared>>
  /\ UNCHANGED <<decVars, sseVars>>

\* sendMessage(message) accepted; spawn() returns a ChildProcess that runs
\* (launched = TRUE) or that will report a spawn failure (launched = FALSE)
SendMessageSpawn(out, launched) ==
  /\ ~MicrotaskQueued
  /\ cm.isStarted
  /\ ~BusyRejects(cm)
  /\ nSpawned < MaxProcs
  /\ nSpawned' = nSpawned + 1
  /\ procs' = [procs EXCEPT ![nSpawned + 1] =
                 [state |-> IF launched THEN "running" ELSE "failed",
                  out |-> IF launched THEN out ELSE <<>>, failing |-> FALSE]]
  /\ cm' = [cm EXCEPT !.lastActivity = DateNow + 1, !.isProcessing = TRUE,
                      !.currentProcess = nSpawned + 1]
  /\ cleared' = FALSE
  /\ emitted' = <<>>
  /\ op' = [name |-> "sendMessage", result |-> "spawned",
            proc |-> nSpawned + 1, args |-> SpawnArgs(cm.sessionId)]
  /\ UNCHANGED <<stops, nStops, tokenSeen>>
  /\ UNCHANGED <<decVars, sseVars>>

\* sendMessage(message) accepted; spawn() throws
SendMessageThrow ==
  /\ ~MicrotaskQueued
  /\ cm.isStarted
  /\ ~BusyRejects(cm)
  /\ cm' = [cm EXCEPT !.lastActivity = DateNow + 1, !.isProcessing = TRUE]
  /\ op' = [Idle EXCEPT !.name = "sendMessage", !.result = "SpawnThrow"]
  /\ emitted' = <<>>
  /\ UNCHANGED <<procs, nSpawned, stops, nStops, tokenSeen, cleared>>
  /\ UNCHANGED <<decVars, sseVars>>

SendMessage ==
  \/ SendMessageBusy
  \/ \E out \in Outputs, launched \in BOOLEAN : SendMessageSpawn(out, launched)
  \/ SendMessageThrow

-----------------------------------------------------------------------------
(* ClaudeManager: the callbacks of a spawned process *)

\* stdout "data" handler of process p: the next chunk arrives.  Node may
\* deliver "data" after "exit" (the streams close later, at "close").
StdoutData(p) ==
  /\ ~MicrotaskQueued
  /\ procs[p].state \in {"running", "done"}
  /\ procs[p].out # <<>>
  /\ LET chunk == Head(procs[p].out)
         r == ParseJsonStream(chunk, cm.sessionId)
     IN /\ cm' = [cm EXCEPT !.sessionId = r.sessionId]
        /\ emitted' = Tag(p, "stdout", r.events)
        /\ tokenSeen' = LastCarried(chunk, tokenSeen)
  /\ procs' = [procs EXCEPT ![p].out = Tail(@)]
  /\ op' = [Idle EXCEPT !.name = "data", !.proc = p]
  /\ UNCHANGED <<nSpawned, stops, nStops, cleared>>
  /\ UNCHANGED <<decVars, sseVars>>

\* `Claude exited with code ${code}`
ExitMessage(code) ==
  CASE code = "1" -> "Claude exited with code 1"
    [] code = "null" -> "Claude exited with code null"
    [] OTHER -> "Claude exited with code 0"

\* the "exit" handler dropping the session of a failed process
ExitHandlerClearingSession(c, code) ==
  [c EXCEPT !.isProcessing = FALSE,
            !.sessionId = IF code = "0" THEN @ ELSE Null]

\* "exit" handler of sendMessage: the fields it assigns
ExitHandler(c, code) == [c EXCEPT !.isProcessing = FALSE]

\* the "exit" handler reporting success whatever the code
ExitEventsIgnoringCode(code) == <<CompletedEvent>>

\* "exit" handler of sendMessage: the events it emits
ExitEvents(code) ==
  IF code = "0" THEN <<CompletedEvent>> ELSE <<ErrorEvent(ExitMessage(code))>>

\* "error" handler of sendMessage: the fields it assigns
ErrorHandler(c) == [c EXCEPT !.isProcessing = FALSE]

\* "error" handler of sendMessage: the events it emits
ErrorEvents(message) == <<ErrorEvent(message)>>

\* stop(): the once("exit") handler, after clearTimeout
StopOnExit(c) == [c EXCEPT !.isProcessing = FALSE]

\* restart(): the statement after `await this.stop()`
RestartContinuation(c) == [c EXCEPT !.sessionId = Null]

\* the stop() calls whose once("exit") handler is registered on process p
OnceHandlers(p) == {s \in 1..nStops : stops[s].proc = p /\ stops[s].armed}

\* "exit" of process p with this code: the handler of sendMessage runs, then
\* the once("exit") handlers of stop() in registration order
ProcExit(p, code) ==
  /\ ~MicrotaskQueued
  /\ procs[p].state = "running"
  /\ LET fired == OnceHandlers(p)
         c1 == ExitHandler(cm, code)
     IN /\ cm' = IF fired # {} THEN StopOnExit(c1) ELSE c1
        /\ stops' = [s \in 1..MaxStops |->
                       IF s \in fired
                       THEN (IF stops[s].state = "waiting"
                             THEN [stops[s] EXCEPT !.state = "resuming",
                                                   !.timer = FALSE,
                                                   !.armed = FALSE]
                             ELSE StopDone)
                       ELSE stops[s]]
  /\ emitted' = Tag(p, "exit", ExitEvents(code))
  /\ procs' = [procs EXCEPT ![p].state = "done", ![p].failing = FALSE]
  /\ op' = [Idle EXCEPT !.name = "exit", !.result = code, !.proc = p]
  /\ UNCHANGED <<nSpawned, nStops, tokenSeen, cleared>>
  /\ UNCHANGED <<decVars, sseVars>>

\* the "error" handler spawning the process again
SpawnErrorRetrying(p) ==
  /\ ~MicrotaskQueued
  /\ procs[p].state = "failed"
  /\ nSpawned < MaxProcs
  /\ nSpawned' = nSpawned + 1
  /\ cm' = [cm EXCEPT !.currentProcess = nSpawned + 1]
  /\ emitted' = <<>>
  /\ procs' = [procs EXCEPT ![p].state = "done",
                            ![nSpawned + 1] = [state |-> "running",
                                               out |-> <<>>,
                                               failing |-> FALSE]]
  /\ op' = [Idle EXCEPT !.name = "error", !.result = "spawn", !.proc = p]
  /\ UNCHANGED <<stops, nStops, tokenSeen, cleared>>
  /\ UNCHANGED <<decVars, sseVars>>

\* "error" of process p, which could not be spawned; no "exit" follows
SpawnError(p) ==
  /\ ~MicrotaskQueued
  /\ procs[p].state = "failed"
  /\ cm' = ErrorHandler(cm)
  /\ emitted' = Tag(p, "error", ErrorEvents("spawn ENOENT"))
  /\ procs' = [procs EXCEPT ![p].state = "done"]
  /\ op' = [Idle EXCEPT !.name = "error", !.result = "spawn", !.proc = p]
  /\ UNCHANGED <<nSpawned, stops, nStops, tokenSeen, cleared>>
  /\ UNCHANGED <<decVars, sseVars>>

-----------------------------------------------------------------------------
(* ClaudeManager: stop and restart *)

\* ChildProcess.kill(signal): the process the signal goes to, 0 when the
\* process is not running (kill then does nothing)
Kill(p) == IF p # 0 /\ procs[p].state = "running" THEN p ELSE 0

\* stop() (kind = "stop") or restart() (kind = "restart") when
\* this.currentProcess is null: stop() returns at once
StopIdle(kind) ==
  /\ ~MicrotaskQueued
  /\ cm.isStarted
  /\ cm.currentProcess = 0
  /\ cm' = IF kind = "restart" THEN RestartContinuation(cm) ELSE cm
  /\ tokenSeen' = IF kind = "restart" THEN Null ELSE tokenSeen
  /\ cleared' = IF kind = "restart" THEN TRUE ELSE cleared
  /\ op' = [Idle EXCEPT !.name = kind, !.result = "resolved"]
  /\ emitted' = <<>>
  /\ UNCHANGED <<procs, nSpawned, stops, nStops>>
  /\ UNCHANGED <<decVars, sseVars>>

\* stop() or restart() when this.currentProcess is set: arm the timer,
\* register the once("exit") handler, send SIGTERM.  When the signal cannot
\* be delivered to the running process (delivered = FALSE), kill() emits
\* "error" on the ChildProcess and the "error" handler of sendMessage runs.
StopWait(kind, delivered) ==
  /\ ~MicrotaskQueued
  /\ cm.isStarted
  /\ cm.currentProcess # 0
  /\ delivered \/ Kill(cm.currentProcess) # 0
  /\ nStops < MaxStops
  /\ nStops' = nStops + 1
  /\ stops' = [stops EXCEPT ![nStops + 1] =
                 [state |-> "waiting", kind |-> kind,
                  proc |-> cm.currentProcess, timer |-> TRUE,
                  armed |-> procs[cm.currentProcess].state = "running"]]
  /\ cm' = IF delivered THEN cm ELSE ErrorHandler(cm)
  /\ emitted' = IF delivered THEN <<>>
                ELSE Tag(cm.currentProcess, "error", ErrorEvents("kill EPERM"))
  /\ procs' = IF delivered THEN procs
              ELSE Failing(procs, cm.currentProcess)
  /\ op' = [Idle EXCEPT !.name = kind,
                        !.result = IF delivered THEN "SIGTERM" ELSE "EPERM",
                        !.proc = Kill(cm.currentProcess)]
  /\ UNCHANGED <<nSpawned, tokenSeen, cleared>>
  /\ UNCHANGED <<decVars, sseVars>>

\* the setTimeout callback of stop() shutting the manager down
StopTimeoutHandlerShutdown(c) ==
  [c EXCEPT !.isProcessing = FALSE, !.isStarted = FALSE]

\* stop(): the setTimeout callback, the fields it assigns
StopTimeoutHandler(c) == [c EXCEPT !.isProcessing = FALSE]

\* stop(): the process the setTimeout callback sends SIGKILL to
StopTimeoutTarget(s) == cm.currentProcess

\* the setTimeout callback of stop() without its resolve()
StopTimeoutUnresolved(s, delivered) ==
  /\ ~MicrotaskQueued
  /\ stops[s].timer
  /\ delivered \/ Kill(StopTimeoutTarget(s)) # 0
  /\ cm' = StopTimeoutHandler(IF delivered THEN cm ELSE ErrorHandler(cm))
  /\ emitted' = IF delivered THEN <<>>
                ELSE Tag(StopTimeoutTarget(s), "error",
                         ErrorEvents("kill EPERM"))
  /\ procs' = IF delivered THEN procs
              ELSE Failing(procs, StopTimeoutTarget(s))
  /\ stops' = [stops EXCEPT ![s].timer = FALSE]
  /\ op' = [Idle EXCEPT !.name = "timeout",
                        !.result = IF delivered THEN "SIGKILL" ELSE "EPERM",
                        !.proc = Kill(StopTimeoutTarget(s))]
  /\ UNCHANGED <<nSpawned, nStops, tokenSeen, cleared>>
  /\ UNCHANGED <<decVars, sseVars>>

\* the grace period of stop() call s ends; SIGKILL is delivered or not, as
\* for SIGTERM
StopTimeout(s, delivered) ==
  /\ ~MicrotaskQueued
  /\ stops[s].timer
  /\ delivered \/ Kill(StopTimeoutTarget(s)) # 0
  /\ cm' = StopTimeoutHandler(IF delivered THEN cm ELSE ErrorHandler(cm))
  /\ emitted' = IF delivered THEN <<>>
                ELSE Tag(StopTimeoutTarget(s), "error",
                         ErrorEvents("kill EPERM"))
  /\ procs' = IF delivered THEN procs
              ELSE Failing(procs, StopTimeoutTarget(s))
  /\ stops' = [stops EXCEPT ![s].timer = FALSE, ![s].state = "resuming"]
  /\ op' = [Idle EXCEPT !.name = "timeout",
                        !.result = IF delivered THEN "SIGKILL" ELSE "EPERM",
                        !.proc = Kill(StopTimeoutTarget(s))]
  /\ UNCHANGED <<nSpawned, nStops, tokenSeen, cleared>>
  /\ UNCHANGED <<decVars, sseVars>>

\* the caller of stop() call s resumes after its `await`: restart() clears
\* the session id, a caller of stop() has nothing more to do here
Resume(s) ==
  /\ stops[s].state = "resuming"
  /\ LET restarted == stops[s].kind = "restart"
     IN /\ cm' = IF restarted THEN RestartContinuation(cm) ELSE cm
        /\ tokenSeen' = IF restarted THEN Null ELSE tokenSeen
        /\ cleared' = IF restarted THEN TRUE ELSE cleared
  /\ stops' = [stops EXCEPT ![s] = IF stops[s].armed
                                   THEN [@ EXCEPT !.state = "resolved"]
                                   ELSE StopDone]
  /\ emitted' = <<>>
  /\ op' = [Idle EXCEPT !.name = "resumed", !.result = stops[s].kind]
  /\ UNCHANGED <<procs, nSpawned, nStops>>
  /\ UNCHANGED <<decVars, sseVars>>

Stop == StopIdle("stop") \/ \E delivered \in BOOLEAN : StopWait("stop", delivered)

Restart ==
  StopIdle("restart") \/ \E delivered \in BOOLEAN : StopWait("restart", delivered)

-----------------------------------------------------------------------------
(* The manager's specification *)

NoTwin == [active |-> FALSE, had |-> FALSE, parser |-> NewParser(FALSE)]

NoneReturned == [n |-> 0, chunk |-> <<>>, parser |-> <<>>, twin |-> <<>>]

parserFrozen ==
  /\ parser = NewParser(FALSE)
  /\ twin = NoTwin
  /\ returned = NoneReturned

decFrozen ==
  /\ decRest = <<>>
  /\ decWhole = <<>>
  /\ cmDecoded = <<>>
  /\ opBuffer = <<>>
  /\ opDecoded = <<>>
  /\ parserFrozen

\* a Response: conn is "none" (no such request yet), "live" or "gone" (the
\* remote end is gone, or the response was ended); ended says that res.end()
\* was called; close is "armed" when the handler of addClient is registered,
\* "pending" when the "close" event is due, else "off"; received is what the
\* remote end of a connection that is up has got, one entry per frame, and
\* since is the number of pushes made before it was registered (both are
\* dropped with the connection); ends counts the calls of res.end(); job is
\* the process the request of this response started, 0 for none
NoSink ==
  [conn |-> "none", ended |-> FALSE, close |-> "off", received |-> <<>>,
   since |-> 0, ends |-> 0, job |-> 0]

\* the last operation on the subscriber set: the clients it addressed, the
\* clients whose write threw, the clients it removed from the set, whether
\* it raised, and the frames the remote end of the request's own sink got
\* in it (for the operations of a request handler)
SseIdle ==
  [name |-> "init", raised |-> FALSE, threw |-> {}, targets |-> <<>>,
   removed |-> {}, got |-> <<>>]

SseInit ==
  /\ clients = <<>>
  /\ sinks = [c \in 1..MaxClients |-> NoSink]
  /\ nClients = 0
  /\ bcast = <<>>
  /\ sseOp = SseIdle

sseFrozen == SseInit

Init == MgrInit /\ decFrozen /\ sseFrozen

Next ==
  \/ Start
  \/ SendMessage
  \/ \E p \in 1..MaxProcs : StdoutData(p)
  \/ \E p \in 1..MaxProcs, code \in ExitCodes : ProcExit(p, code)
  \/ \E p \in 1..MaxProcs : SpawnError(p)
  \/ Stop
  \/ Restart
  \/ \E s \in 1..MaxStops, delivered \in BOOLEAN : StopTimeout(s, delivered)
  \/ \E s \in 1..MaxStops : Resume(s)

Spec == Init /\ [][Next]_vars

\* the event loop runs every timer that is due and every queued
\* continuation; nothing makes a process exit
Fairness ==
  /\ WF_vars(\E s \in 1..MaxStops, delivered \in BOOLEAN :
               StopTimeout(s, delivered))
  /\ WF_vars(\E s \in 1..MaxStops : Resume(s))

LiveSpec == Spec /\ Fairness

\* every spawned process ends: a running one exits, a failed spawn delivers
\* its "error"
ProcessesEnd ==
  /\ WF_vars(\E p \in 1..MaxProcs, code \in ExitCodes : ProcExit(p, code))
  /\ WF_vars(\E p \in 1..MaxProcs : SpawnError(p))

EndingSpec == Spec /\ Fairness /\ ProcessesEnd

-----------------------------------------------------------------------------
(* The decoders on their own: an output is fed chunk by chunk *)

\* well-formed newline-delimited outputs
DecInputs ==
  { <<LB, "a", "M", RB, NL>>,
    <<LB, "A", RB, NL, LB, "b", "U", RB, NL>>,
    <<LB, "E", RB, NL, SP, NL, LB, "c", "S", RB, NL>> }

DecInit ==
  /\ MgrInit
  /\ sseFrozen
  /\ decWhole \in DecInputs
  /\ decRest = decWhole
  /\ cmDecoded = <<>>
  /\ opBuffer = <<>>
  /\ opDecoded = <<>>
  /\ parserFrozen

\* the next k tokens arrive as one chunk: the stdout handler of ClaudeManager
\* hands it to parseJsonStream, and an OutputParser gets it through parse
DecFeed(k) ==
  /\ k \in 1..Len(decRest)
  /\ LET chunk == SubSeq(decRest, 1, k)
         r == ParseJsonStream(chunk, cm.sessionId)
         q == OPParse(chunk, opBuffer)
     IN /\ cm' = [cm EXCEPT !.sessionId = r.sessionId]
        /\ cmDecoded' = cmDecoded \o r.events
        /\ opBuffer' = q.jsonBuffer
        /\ opDecoded' = opDecoded \o q.events
  /\ decRest' = SubSeq(decRest, k + 1, Len(decRest))
  /\ UNCHANGED <<decWhole, procs, nSpawned, stops, nStops, emitted, tokenSeen,
                 cleared, op, sseVars, parser, twin, returned>>

DecNext == \E k \in 1..Len(decRest) : DecFeed(k)

DecSpec == DecInit /\ [][DecNext]_vars

-----------------------------------------------------------------------------
(* The decoders on their own: outputs fed in chunks of whole lines *)

\* the sequences of at most n elements of S
RECURSIVE SeqsUpTo(_, _)
SeqsUpTo(S, n) ==
  IF n = 0 THEN {<<>>}
  ELSE LET shorter == SeqsUpTo(S, n - 1) IN
         shorter \cup {Append(q, e) : q \in {r \in shorter : Len(r) = n - 1},
                                      e \in S}

BlockTokens == {"t", "x", "u", "i"}

\* one line with an assistant record of up to MaxBlocks content blocks
AssistantLines ==
  {<<LB, "B">> \o bs \o <<RB, NL>> : bs \in SeqsUpTo(BlockTokens, MaxBlocks)}

\* lines with records of other shapes, and lines JSON.parse rejects: a
\* record cut before its closing brace, and one that lacks the opening one
MixedLines ==
  { <<LB, "a", "M", RB, NL>>,
    <<LB, "E", RB, NL>>,
    <<LB, "b", "S", RB, NL>>,
    <<LB, "R", RB, NL>>,
    <<LB, "U", RB, NL>>,
    <<LB, "c", "M", NL>>,
    <<"E", RB, NL>> }

LineInputs ==
  AssistantLines
    \cup {Concat(ls) : ls \in SeqsUpTo(MixedLines, MaxLines) \ {<<>>}}

LineInit ==
  /\ MgrInit
  /\ sseFrozen
  /\ decWhole \in LineInputs
  /\ decRest = decWhole
  /\ cmDecoded = <<>>
  /\ opBuffer = <<>>
  /\ opDecoded = <<>>
  /\ parserFrozen

\* the next lines, up to the k-th token, arrive as one chunk
LineFeed(k) ==
  /\ k \in 1..Len(decRest)
  /\ decRest[k] = NL
  /\ DecFeed(k)

LineNext == \E k \in 1..Len(decRest) : LineFeed(k)

LineSpec == LineInit /\ [][LineNext]_vars

-----------------------------------------------------------------------------
(* An OutputParser that is fed and reset *)

\* the chunks handed to parse(): pieces of records and pieces of text
ParserChunks ==
  { <<LB, "M">>,
    <<RB, NL>>,
    <<LB, "E", RB, NL>>,
    <<TO, WORD>>,
    <<WORD, TC>>,
    <<RO, ESC, WORD, RC>>,
    <<AS, WORD, NL, TO>> }

ParserInit ==
  /\ MgrInit
  /\ sseFrozen
  /\ decRest = <<>>
  /\ decWhole = <<>>
  /\ cmDecoded = <<>>
  /\ opBuffer = <<>>
  /\ opDecoded = <<>>
  /\ parser \in {NewParser(jsonMode) : jsonMode \in BOOLEAN}
  /\ twin = NoTwin
  /\ returned = NoneReturned

\* parser.parse(chunk); the twin, once constructed, gets the chunk too
ParserParse(chunk) ==
  /\ returned.n < MaxFeeds
  /\ LET r == OPParseWith(parser, chunk)
         t == OPParseWith(twin.parser, chunk)
     IN /\ parser' = r.parser
        /\ twin' = IF twin.active THEN [twin EXCEPT !.parser = t.parser]
                   ELSE twin
        /\ returned' = [n |-> returned.n + 1,
                        chunk |-> chunk,
                        parser |-> r.events,
                        twin |-> IF twin.active THEN t.events ELSE <<>>]
  /\ UNCHANGED <<decRest, decWhole, cmDecoded, opBuffer, opDecoded>>
  /\ UNCHANGED <<mgrVars, sseVars>>

\* parser.reset(); a twin is constructed with the mode of the parser, and
\* `had` records that the parser held buffered text
ParserReset ==
  /\ parser' = OPReset(parser)
  /\ twin' = [active |-> TRUE,
              had |-> parser.buffer # <<>> \/ parser.jsonBuffer # <<>>,
              parser |-> NewParser(parser.isJsonMode)]
  /\ returned' = [returned EXCEPT !.chunk = <<>>, !.parser = <<>>,
                                 !.twin = <<>>]
  /\ UNCHANGED <<decRest, decWhole, cmDecoded, opBuffer, opDecoded>>
  /\ UNCHANGED <<mgrVars, sseVars>>

ParserNext ==
  \/ \E chunk \in ParserChunks : ParserParse(chunk)
  \/ ParserReset

ParserSpec == ParserInit /\ [][ParserNext]_vars

-----------------------------------------------------------------------------
(* SSEManager *)

\* the state of an SSEManager and of the sinks it was handed, and whether
\* the operation under way has raised
SseState == [clients |-> clients, sinks |-> sinks, raised |-> FALSE]

\* the frame sendEvent writes for an event; n is the index of the push in
\* bcast, 0 for the acknowledgement of addClient
Frame(ev, n) == [ev |-> ev, n |-> n]

\* the acknowledgement carrying no client id
ConnectedEventAnonymous(id) == [type |-> "connected", clientId |-> 0]

\* addClient: the acknowledgement
ConnectedEvent(id) == [type |-> "connected", clientId |-> id]

Registered(cl, id) == \E i \in 1..Len(cl) : cl[i] = id

Without(cl, id) == SelectSeq(cl, LAMBDA c : c # id)

\* sendEvent putting the frame before the frames already written
SendEventFirst(st, id, frame) ==
  IF st.sinks[id].conn = "live"
  THEN [st EXCEPT !.sinks[id].received = <<frame>> \o @]
  ELSE st

\* sendEvent(res, event) when res.write does not throw: a live connection
\* carries the frame to the remote end, any other drops it
SendEvent(st, id, frame) ==
  IF st.sinks[id].conn = "live"
  THEN [st EXCEPT !.sinks[id].received = Append(@, frame)]
  ELSE st

\* res.end(): the response is finished, the connection is dropped and its
\* "close" event becomes due
EndSink(sk) ==
  [sk EXCEPT !.ended = TRUE,
             !.conn = IF @ = "live" THEN "gone" ELSE @,
             !.close = IF sk.conn = "live" /\ @ = "armed" THEN "pending" ELSE @,
             !.received = <<>>,
             !.since = 0,
             !.ends = @ + 1]

\* removeClient(clientId) without the test of `res`
RemoveClientFromUnchecked(st, id) ==
  [st EXCEPT !.sinks[id] = EndSink(@), !.clients = Without(@, id)]

\* removeClient(clientId) without this.clients.delete(clientId)
RemoveClientFromKeepingEntry(st, id) ==
  IF Registered(st.clients, id)
  THEN [st EXCEPT !.sinks[id] = EndSink(@)]
  ELSE st

\* removeClient(clientId)
RemoveClientFrom(st, id) ==
  IF Registered(st.clients, id)
  THEN [st EXCEPT !.sinks[id] = EndSink(@), !.clients = Without(@, id)]
  ELSE st

\* broadcast without the try/catch: the first throw ends the forEach
RECURSIVE BroadcastToUncaught(_, _, _, _)
BroadcastToUncaught(st, ids, frame, throwers) ==
  IF ids = <<>> THEN st
  ELSE IF Head(ids) \in throwers THEN [st EXCEPT !.raised = TRUE]
  ELSE BroadcastToUncaught(SendEvent(st, Head(ids), frame), Tail(ids), frame,
                           throwers)

\* broadcast sending the event twice to each client
RECURSIVE BroadcastToTwice(_, _, _, _)
BroadcastToTwice(st, ids, frame, throwers) ==
  IF ids = <<>> THEN st
  ELSE LET id == Head(ids) IN
         BroadcastToTwice(IF id \in throwers
                          THEN RemoveClientFrom(st, id)
                          ELSE SendEvent(SendEvent(st, id, frame), id, frame),
                          Tail(ids), frame, throwers)

\* broadcast(event): the forEach over the clients in ids; res.write throws
\* for the clients in throwers
RECURSIVE BroadcastTo(_, _, _, _)
BroadcastTo(st, ids, frame, throwers) ==
  IF ids = <<>> THEN st
  ELSE LET id == Head(ids) IN
         BroadcastTo(IF id \in throwers
                     THEN RemoveClientFrom(st, id)
                     ELSE SendEvent(st, id, frame),
                     Tail(ids), frame, throwers)

\* the registered clients for which res.write can throw
CanThrow == {id \in 1..MaxClients : Registered(clients, id)
                                     /\ sinks[id].conn # "live"}

\* the events the harness hands to broadcast
BroadcastEvents == {ContentEvent("message", "hi")}

\* addClient(clientId, res) with a fresh client id; throws says that the
\* first res.write throws
AddClient(throws) ==
  /\ nClients < MaxClients
  /\ nClients' = nClients + 1
  /\ LET id == nClients + 1 IN
       IF throws
       THEN /\ sinks' = [sinks EXCEPT ![id] = [NoSink EXCEPT !.conn = "gone"]]
            /\ clients' = clients
            /\ sseOp' = [SseIdle EXCEPT !.name = "addClient", !.raised = TRUE]
       ELSE /\ sinks' = [sinks EXCEPT ![id] =
                           [NoSink EXCEPT
                              !.conn = "live", !.close = "armed",
                              !.received = <<Frame(ConnectedEvent(id), 0)>>,
                              !.since = Len(bcast)]]
            /\ clients' = Append(clients, id)
            /\ sseOp' = [SseIdle EXCEPT !.name = "addClient"]
  /\ UNCHANGED bcast
  /\ UNCHANGED <<mgrVars, decVars>>

\* broadcast(event)
Broadcast(ev, throwers) ==
  /\ Len(bcast) < MaxPushes
  /\ throwers \subseteq CanThrow
  /\ bcast' = Append(bcast, [ev |-> ev, to |-> 0])
  /\ LET st == BroadcastTo(SseState, clients, Frame(ev, Len(bcast) + 1),
                           throwers)
     IN /\ clients' = st.clients
        /\ sinks' = st.sinks
        /\ sseOp' = [SseIdle EXCEPT !.name = "broadcast",
                                    !.raised = st.raised,
                                    !.threw = throwers,
                                    !.targets = clients,
                                    !.removed = throwers]
  /\ UNCHANGED nClients
  /\ UNCHANGED <<mgrVars, decVars>>

\* sendToClient(clientId, event)
SendToClient(id, ev, throws) ==
  /\ Len(bcast) < MaxPushes
  /\ throws => id \in CanThrow
  /\ bcast' = Append(bcast, [ev |-> ev, to |-> id])
  /\ LET st == IF ~Registered(clients, id) THEN SseState
               ELSE IF throws THEN RemoveClientFrom(SseState, id)
               ELSE SendEvent(SseState, id, Frame(ev, Len(bcast) + 1))
     IN /\ clients' = st.clients
        /\ sinks' = st.sinks
        /\ sseOp' = [SseIdle EXCEPT !.name = "sendToClient",
                                    !.raised = st.raised,
                                    !.threw = IF throws THEN {id} ELSE {},
                                    !.targets = <<id>>,
                                    !.removed = IF throws THEN {id} ELSE {}]
  /\ UNCHANGED nClients
  /\ UNCHANGED <<mgrVars, decVars>>

\* removeClient(clientId), called from outside
RemoveClient(id) ==
  /\ LET st == RemoveClientFrom(SseState, id)
     IN /\ clients' = st.clients
        /\ sinks' = st.sinks
        /\ sseOp' = [SseIdle EXCEPT
                       !.name = "removeClient", !.targets = <<id>>,
                       !.removed = IF Registered(clients, id) THEN {id}
                                   ELSE {}]
  /\ UNCHANGED <<nClients, bcast>>
  /\ UNCHANGED <<mgrVars, decVars>>

\* the remote end of a sink goes away; its "close" event becomes due
Disconnect(id) ==
  /\ sinks[id].conn = "live"
  /\ sinks' = [sinks EXCEPT ![id].conn = "gone",
                            ![id].close = IF @ = "armed" THEN "pending" ELSE @,
                            ![id].received = <<>>,
                            ![id].since = 0]
  /\ sseOp' = [SseIdle EXCEPT !.name = "disconnect"]
  /\ UNCHANGED <<clients, nClients, bcast>>
  /\ UNCHANGED <<mgrVars, decVars>>

\* the "close" handler addClient registered on the sink runs
CloseCallback(id) ==
  /\ ~MicrotaskQueued
  /\ sinks[id].close = "pending"
  /\ LET st == RemoveClientFrom(
                 [SseState EXCEPT !.sinks[id].close = "off"], id)
     IN /\ clients' = st.clients
        /\ sinks' = st.sinks
        /\ sseOp' = [SseIdle EXCEPT
                       !.name = "close", !.targets = <<id>>,
                       !.removed = IF Registered(clients, id) THEN {id}
                                   ELSE {}]
  /\ UNCHANGED <<nClients, bcast>>
  /\ UNCHANGED <<mgrVars, decVars>>

\* closeAll() without this.clients.clear()
CloseAllKeepingClients ==
  /\ clients # <<>>
  /\ sinks' = [id \in 1..MaxClients |->
                 IF Registered(clients, id) THEN EndSink(sinks[id])
                 ELSE sinks[id]]
  /\ clients' = clients
  /\ sseOp' = [SseIdle EXCEPT !.name = "closeAll", !.targets = clients]
  /\ UNCHANGED <<nClients, bcast>>
  /\ UNCHANGED <<mgrVars, decVars>>

\* closeAll()
CloseAll ==
  /\ clients # <<>>
  /\ sinks' = [id \in 1..MaxClients |->
                 IF Registered(clients, id) THEN EndSink(sinks[id])
                 ELSE sinks[id]]
  /\ clients' = <<>>
  /\ sseOp' = [SseIdle EXCEPT !.name = "closeAll", !.targets = clients]
  /\ UNCHANGED <<nClients, bcast>>
  /\ UNCHANGED <<mgrVars, decVars>>

SseNext ==
  \/ \E throws \in BOOLEAN : AddClient(throws)
  \/ \E ev \in BroadcastEvents, throwers \in SUBSET (1..MaxClients) :
       Broadcast(ev, throwers)
  \/ \E id \in 1..MaxClients : RemoveClient(id)
  \/ \E id \in 1..MaxClients : Disconnect(id)
  \/ \E id \in 1..MaxClients : CloseCallback(id)
  \/ CloseAll

SseSpecInit == MgrInit /\ decFrozen /\ SseInit

SseSpec == SseSpecInit /\ [][SseNext]_vars

-----------------------------------------------------------------------------
(* ProxyServer: POST /chat and the event wiring *)

\* the output of a process started by a chat request: one chunk with an
\* assistant record of two content blocks and a system record with content
ChatOutputs == {<< <<LB, "A", RB, NL, LB, "b", "S", RB, NL>> >>}

\* the message of the Error sendMessage throws when busy
BusyMessage == "Claude is currently processing another message"

\* the message of the Error a throwing spawn() raises
SpawnThrowMessage == "spawn ENOMEM"

\* the `event` listener of ProxyServer.start with the events broadcast
\* last first
RECURSIVE BroadcastEachReversed(_, _, _)
BroadcastEachReversed(st, evs, n) ==
  IF evs = <<>> THEN st
  ELSE BroadcastTo(BroadcastEachReversed(st, Tail(evs), n + 1), st.clients,
                   Frame(Head(evs), n + 1), {})

\* the `event` listener of ProxyServer.start: each event the manager emits
\* is broadcast, in the order of emission; n is the number of pushes made
\* before.  No res.write throws here (SseSpec has the writes that throw).
RECURSIVE BroadcastEach(_, _, _)
BroadcastEach(st, evs, n) ==
  IF evs = <<>> THEN st
  ELSE BroadcastEach(BroadcastTo(st, st.clients, Frame(Head(evs), n + 1), {}),
                     Tail(evs), n + 1)

\* the entries of the push history for these broadcast events
Pushed(evs) == [i \in 1..Len(evs) |-> [ev |-> evs[i], to |-> 0]]

\* the manager emits evs and the listener broadcasts them
EmitAndBroadcast(evs) ==
  /\ LET st == BroadcastEach(SseState, evs, Len(bcast))
     IN /\ clients' = st.clients
        /\ sinks' = st.sinks
        /\ sseOp' = [SseIdle EXCEPT !.name = "event",
                                    !.raised = st.raised,
                                    !.targets = clients]
  /\ bcast' = bcast \o Pushed(evs)
  /\ UNCHANGED nClients

\* the state of the subscribers after addClient(clientId, res) for a fresh
\* client id whose connection is up
AfterAddClient(id, job) ==
  [SseState EXCEPT
     !.sinks[id] = [NoSink EXCEPT
                      !.conn = "live", !.close = "armed",
                      !.received = <<Frame(ConnectedEvent(id), 0)>>,
                      !.since = Len(bcast), !.job = job],
     !.clients = Append(@, id)]

\* handleChat with the error pushed to every subscriber
HandleChatRefusedBroadcast(reason) ==
  /\ ~MicrotaskQueued
  /\ cm.isStarted
  /\ nClients < MaxChats
  /\ IF reason = "Busy" THEN BusyRejects(cm) ELSE ~BusyRejects(cm)
  /\ nClients' = nClients + 1
  /\ LET id == nClients + 1
         ev == ErrorEvent(IF reason = "Busy" THEN BusyMessage
                          ELSE SpawnThrowMessage)
         st1 == AfterAddClient(id, 0)
         st2 == BroadcastTo(st1, st1.clients, Frame(ev, Len(bcast) + 1), {})
         st3 == RemoveClientFrom(st2, id)
     IN /\ clients' = st3.clients
        /\ sinks' = st3.sinks
        /\ bcast' = Append(bcast, [ev |-> ev, to |-> 0])
        /\ sseOp' = [SseIdle EXCEPT !.name = "chat", !.targets = <<id>>,
                                    !.removed = {id},
                                    !.got = st2.sinks[id].received]
  /\ cm' = IF reason = "Busy" THEN cm
           ELSE [cm EXCEPT !.lastActivity = DateNow + 1,
                           !.isProcessing = TRUE]
  /\ op' = [Idle EXCEPT !.name = "sendMessage", !.result = reason]
  /\ emitted' = <<>>
  /\ UNCHANGED <<procs, nSpawned, stops, nStops, tokenSeen, cleared>>
  /\ UNCHANGED decVars

\* handleChat when sendMessage throws (reason is "Busy" or "SpawnThrow"):
\* addClient, then sendToClient with the error, then removeClient; the
\* connection of the request is up while its handler runs
HandleChatRefused(reason) ==
  /\ ~MicrotaskQueued
  /\ cm.isStarted
  /\ nClients < MaxChats
  /\ IF reason = "Busy" THEN BusyRejects(cm) ELSE ~BusyRejects(cm)
  /\ nClients' = nClients + 1
  /\ LET id == nClients + 1
         ev == ErrorEvent(IF reason = "Busy" THEN BusyMessage
                          ELSE SpawnThrowMessage)
         st1 == AfterAddClient(id, 0)
         st2 == SendEvent(st1, id, Frame(ev, Len(bcast) + 1))
         st3 == RemoveClientFrom(st2, id)
     IN /\ clients' = st3.clients
        /\ sinks' = st3.sinks
        /\ bcast' = Append(bcast, [ev |-> ev, to |-> id])
        /\ sseOp' = [SseIdle EXCEPT !.name = "chat", !.targets = <<id>>,
                                    !.removed = {id},
                                    !.got = st2.sinks[id].received]
  /\ cm' = IF reason = "Busy" THEN cm
           ELSE [cm EXCEPT !.lastActivity = DateNow + 1,
                           !.isProcessing = TRUE]
  /\ op' = [Idle EXCEPT !.name = "sendMessage", !.result = reason]
  /\ emitted' = <<>>
  /\ UNCHANGED <<procs, nSpawned, stops, nStops, tokenSeen, cleared>>
  /\ UNCHANGED decVars

\* handleChat when sendMessage is accepted: addClient, then the spawn
HandleChatSpawn(out, launched) ==
  /\ ~MicrotaskQueued
  /\ cm.isStarted
  /\ nClients < MaxChats
  /\ ~BusyRejects(cm)
  /\ nSpawned < MaxProcs
  /\ nClients' = nClients + 1
  /\ nSpawned' = nSpawned + 1
  /\ LET id == nClients + 1
         st == AfterAddClient(id, nSpawned + 1)
     IN /\ clients' = st.clients
        /\ sinks' = st.sinks
        /\ sseOp' = [SseIdle EXCEPT !.name = "chat", !.targets = <<id>>,
                                    !.got = st.sinks[id].received]
  /\ procs' = [procs EXCEPT ![nSpawned + 1] =
                 [state |-> IF launched THEN "running" ELSE "failed",
                  out |-> IF launched THEN out ELSE <<>>, failing |-> FALSE]]
  /\ cm' = [cm EXCEPT !.lastActivity = DateNow + 1, !.isProcessing = TRUE,
                      !.currentProcess = nSpawned + 1]
  /\ cleared' = FALSE
  /\ emitted' = <<>>
  /\ op' = [name |-> "sendMessage", result |-> "spawned",
            proc |-> nSpawned + 1, args |-> SpawnArgs(cm.sessionId)]
  /\ UNCHANGED <<bcast, stops, nStops, tokenSeen>>
  /\ UNCHANGED decVars

\* the `message` of the body of a POST /chat: none, empty, or a text
ChatMessages == {Null, "", "hello"}

\* handleChat validating the request after addClient
HandleChatRejectedRegistered(message) ==
  /\ ~MicrotaskQueued
  /\ OrElse(message, Null) = Null \/ ~IsAlive
  /\ nClients < MaxChats
  /\ nClients' = nClients + 1
  /\ LET st == AfterAddClient(nClients + 1, 0)
     IN /\ clients' = st.clients
        /\ sinks' = st.sinks
        /\ sseOp' = [SseIdle EXCEPT !.name = "chat"]
  /\ op' = [Idle EXCEPT !.name = "handleChat",
                        !.result = IF OrElse(message, Null) = Null
                                   THEN "400" ELSE "503",
                        !.args = <<message>>]
  /\ emitted' = <<>>
  /\ UNCHANGED <<cm, procs, nSpawned, stops, nStops, tokenSeen, cleared>>
  /\ UNCHANGED <<bcast, decVars>>

\* handleChat: a request without a message is answered 400, a request made
\* while the manager is missing or not alive is answered 503, and the
\* handler returns
HandleChatRejected(message) ==
  /\ ~MicrotaskQueued
  /\ OrElse(message, Null) = Null \/ ~IsAlive
  /\ op' = [Idle EXCEPT !.name = "handleChat",
                        !.result = IF OrElse(message, Null) = Null
                                   THEN "400" ELSE "503",
                        !.args = <<message>>]
  /\ emitted' = <<>>
  /\ UNCHANGED <<cm, procs, nSpawned, stops, nStops, tokenSeen, cleared>>
  /\ UNCHANGED <<decVars, sseVars>>

\* handleChat registering the sink whose first write threw
HandleChatAddClientThrowsRegistered(headersSent) ==
  /\ ~MicrotaskQueued
  /\ IsAlive
  /\ nClients < MaxChats
  /\ nClients' = nClients + 1
  /\ LET id == nClients + 1 IN
       /\ sinks' = [sinks EXCEPT ![id] = [NoSink EXCEPT !.conn = "gone"]]
       /\ clients' = Append(clients, id)
       /\ sseOp' = [SseIdle EXCEPT !.name = "chat", !.raised = TRUE,
                                   !.threw = {id}, !.targets = <<id>>]
  /\ op' = [Idle EXCEPT !.name = "addClient",
                        !.result = IF headersSent THEN "none" ELSE "500",
                        !.args = <<"hello">>]
  /\ emitted' = <<>>
  /\ UNCHANGED <<cm, procs, nSpawned, stops, nStops, tokenSeen, cleared>>
  /\ UNCHANGED <<bcast, decVars>>

\* handleChat when the write of the `connected` event throws in addClient:
\* the exception leaves addClient before this.clients.set and skips
\* sendMessage; the outer catch answers 500 unless the headers are sent
HandleChatAddClientThrows(headersSent) ==
  /\ ~MicrotaskQueued
  /\ IsAlive
  /\ nClients < MaxChats
  /\ nClients' = nClients + 1
  /\ LET id == nClients + 1 IN
       /\ sinks' = [sinks EXCEPT ![id] = [NoSink EXCEPT !.conn = "gone"]]
       /\ clients' = clients
       /\ sseOp' = [SseIdle EXCEPT !.name = "chat", !.raised = TRUE,
                                   !.threw = {id}, !.targets = <<id>>]
  /\ op' = [Idle EXCEPT !.name = "addClient",
                        !.result = IF headersSent THEN "none" ELSE "500",
                        !.args = <<"hello">>]
  /\ emitted' = <<>>
  /\ UNCHANGED <<cm, procs, nSpawned, stops, nStops, tokenSeen, cleared>>
  /\ UNCHANGED <<bcast, decVars>>

HandleChat ==
  \/ \E message \in ChatMessages : HandleChatRejected(message)
  \/ \E headersSent \in BOOLEAN : HandleChatAddClientThrows(headersSent)
  \/ \E reason \in {"Busy", "SpawnThrow"} : HandleChatRefused(reason)
  \/ \E out \in ChatOutputs, launched \in BOOLEAN : HandleChatSpawn(out, launched)

\* stdout "data" of process p; the events decoded from the chunk are
\* broadcast as they are emitted
ChatStdoutData(p) ==
  /\ ~MicrotaskQueued
  /\ procs[p].state \in {"running", "done"}
  /\ procs[p].out # <<>>
  /\ LET chunk == Head(procs[p].out)
         r == ParseJsonStream(chunk, cm.sessionId)
     IN /\ cm' = [cm EXCEPT !.sessionId = r.sessionId]
        /\ emitted' = Tag(p, "stdout", r.events)
        /\ tokenSeen' = LastCarried(chunk, tokenSeen)
        /\ EmitAndBroadcast(r.events)
        /\ op' = [Idle EXCEPT !.name = "data", !.proc = p, !.args = chunk]
  /\ procs' = [procs EXCEPT ![p].out = Tail(@)]
  /\ UNCHANGED <<nSpawned, stops, nStops, cleared>>
  /\ UNCHANGED decVars

\* "exit" of process p; the terminal event is broadcast, then the
\* once("exit") handlers of stop() run
ChatProcExit(p, code) ==
  /\ ~MicrotaskQueued
  /\ procs[p].state = "running"
  /\ LET fired == OnceHandlers(p)
         c1 == ExitHandler(cm, code)
     IN /\ cm' = IF fired # {} THEN StopOnExit(c1) ELSE c1
        /\ stops' = [s \in 1..MaxStops |->
                       IF s \in fired
                       THEN (IF stops[s].state = "waiting"
                             THEN [stops[s] EXCEPT !.state = "resuming",
                                                   !.timer = FALSE,
                                                   !.armed = FALSE]
                             ELSE StopDone)
                       ELSE stops[s]]
  /\ emitted' = Tag(p, "exit", ExitEvents(code))
  /\ EmitAndBroadcast(ExitEvents(code))
  /\ procs' = [procs EXCEPT ![p].state = "done", ![p].failing = FALSE]
  /\ op' = [Idle EXCEPT !.name = "exit", !.result = code, !.proc = p]
  /\ UNCHANGED <<nSpawned, nStops, tokenSeen, cleared>>
  /\ UNCHANGED decVars

\* "error" of process p, which could not be spawned; the error event is
\* broadcast
ChatSpawnError(p) ==
  /\ ~MicrotaskQueued
  /\ procs[p].state = "failed"
  /\ cm' = ErrorHandler(cm)
  /\ emitted' = Tag(p, "error", ErrorEvents("spawn ENOENT"))
  /\ EmitAndBroadcast(ErrorEvents("spawn ENOENT"))
  /\ procs' = [procs EXCEPT ![p].state = "done"]
  /\ op' = [Idle EXCEPT !.name = "error", !.result = "spawn", !.proc = p]
  /\ UNCHANGED <<nSpawned, stops, nStops, tokenSeen, cleared>>
  /\ UNCHANGED decVars

ProxyNext ==
  \/ Start
  \/ HandleChat
  \/ \E p \in 1..MaxProcs : ChatStdoutData(p)
  \/ \E p \in 1..MaxProcs, code \in ExitCodes : ChatProcExit(p, code)
  \/ \E p \in 1..MaxProcs : ChatSpawnError(p)
  \/ \E id \in 1..MaxClients : Disconnect(id)
  \/ \E id \in 1..MaxClients : CloseCallback(id)

ProxySpec == Init /\ [][ProxyNext]_vars

-----------------------------------------------------------------------------
(* ProxyServer: POST /reset *)

ResetEvent == StatusEvent("reset", "Session has been reset")

\* the notification of handleReset reaching only the subscriber registered
\* last
ResetBroadcastToNewest(st, n) ==
  IF st.clients = <<>> THEN st
  ELSE BroadcastTo(st, <<st.clients[Len(st.clients)]>>,
                   Frame(ResetEvent, n + 1), {})

\* handleReset: the broadcast that follows the response; n is the number of
\* pushes made before
ResetBroadcast(st, n) ==
  BroadcastTo(st, st.clients, Frame(ResetEvent, n + 1), {})

\* handleReset after `await this.claudeManager.restart()`: the response is
\* sent and the `status` event is broadcast
AfterRestart ==
  /\ LET st == ResetBroadcast(SseState, Len(bcast))
     IN /\ clients' = st.clients
        /\ sinks' = st.sinks
        /\ sseOp' = [SseIdle EXCEPT !.name = "reset", !.raised = st.raised,
                                    !.targets = clients]
  /\ bcast' = Append(bcast, [ev |-> ResetEvent, to |-> 0])
  /\ UNCHANGED nClients

\* handleReset when no manager exists: answered 400
HandleResetRefused ==
  /\ ~MicrotaskQueued
  /\ ~cm.isStarted
  /\ op' = [Idle EXCEPT !.name = "handleReset", !.result = "400"]
  /\ emitted' = <<>>
  /\ UNCHANGED <<cm, procs, nSpawned, stops, nStops, tokenSeen, cleared>>
  /\ UNCHANGED <<decVars, sseVars>>

\* history: the number of reset requests made so far, those that have
\* broadcast their notification and those that wait in stop()
ResetsBegun ==
  Cardinality({i \in 1..Len(bcast) : bcast[i].ev = ResetEvent})
    + Cardinality({s \in 1..MaxStops :
                     stops[s].state \in {"waiting", "resuming"}})

\* handleReset when this.currentProcess is null: stop() returns at once, so
\* restart() and the rest of the handler run as queued continuations
\* before any other callback
HandleResetIdle ==
  /\ ~MicrotaskQueued
  /\ cm.isStarted
  /\ cm.currentProcess = 0
  /\ ResetsBegun < MaxResets
  /\ cm' = RestartContinuation(cm)
  /\ tokenSeen' = Null
  /\ cleared' = TRUE
  /\ op' = [Idle EXCEPT !.name = "restart", !.result = "resolved"]
  /\ emitted' = <<>>
  /\ AfterRestart
  /\ UNCHANGED <<procs, nSpawned, stops, nStops>>
  /\ UNCHANGED decVars

\* handleReset when this.currentProcess is set: restart() waits in stop();
\* an "error" that kill() raises is emitted and broadcast
HandleResetWait(delivered) ==
  /\ ~MicrotaskQueued
  /\ cm.isStarted
  /\ cm.currentProcess # 0
  /\ delivered \/ Kill(cm.currentProcess) # 0
  /\ nStops < MaxStops
  /\ ResetsBegun < MaxResets
  /\ nStops' = nStops + 1
  /\ stops' = [stops EXCEPT ![nStops + 1] =
                 [state |-> "waiting", kind |-> "restart",
                  proc |-> cm.currentProcess, timer |-> TRUE,
                  armed |-> procs[cm.currentProcess].state = "running"]]
  /\ cm' = IF delivered THEN cm ELSE ErrorHandler(cm)
  /\ LET evs == IF delivered THEN <<>> ELSE ErrorEvents("kill EPERM")
     IN /\ emitted' = Tag(cm.currentProcess, "error", evs)
        /\ procs' = IF delivered THEN procs
                    ELSE Failing(procs, cm.currentProcess)
        /\ EmitAndBroadcast(evs)
  /\ op' = [Idle EXCEPT !.name = "restart",
                        !.result = IF delivered THEN "SIGTERM" ELSE "EPERM",
                        !.proc = Kill(cm.currentProcess)]
  /\ UNCHANGED <<nSpawned, tokenSeen, cleared>>
  /\ UNCHANGED decVars

HandleReset ==
  \/ HandleResetRefused
  \/ HandleResetIdle
  \/ \E delivered \in BOOLEAN : HandleResetWait(delivered)

\* the grace period of the stop() of reset s ends
ResetStopTimeout(s, delivered) ==
  /\ ~MicrotaskQueued
  /\ stops[s].timer
  /\ delivered \/ Kill(StopTimeoutTarget(s)) # 0
  /\ cm' = StopTimeoutHandler(IF delivered THEN cm ELSE ErrorHandler(cm))
  /\ LET evs == IF delivered THEN <<>> ELSE ErrorEvents("kill EPERM")
     IN /\ emitted' = Tag(StopTimeoutTarget(s), "error", evs)
        /\ procs' = IF delivered THEN procs
                    ELSE Failing(procs, StopTimeoutTarget(s))
        /\ EmitAndBroadcast(evs)
  /\ stops' = [stops EXCEPT ![s].timer = FALSE, ![s].state = "resuming"]
  /\ op' = [Idle EXCEPT !.name = "timeout",
                        !.result = IF delivered THEN "SIGKILL" ELSE "EPERM",
                        !.proc = Kill(StopTimeoutTarget(s))]
  /\ UNCHANGED <<nSpawned, nStops, tokenSeen, cleared>>
  /\ UNCHANGED decVars

\* the stop() of reset s has resolved: restart() clears the session id and
\* handleReset goes on after its `await`
ResetResume(s) ==
  /\ stops[s].state = "resuming"
  /\ cm' = RestartContinuation(cm)
  /\ tokenSeen' = Null
  /\ cleared' = TRUE
  /\ stops' = [stops EXCEPT ![s] = IF stops[s].armed
                                   THEN [@ EXCEPT !.state = "resolved"]
                                   ELSE StopDone]
  /\ emitted' = <<>>
  /\ op' = [Idle EXCEPT !.name = "resumed", !.result = "restart"]
  /\ AfterRestart
  /\ UNCHANGED <<procs, nSpawned, nStops>>
  /\ UNCHANGED decVars

\* the server with the reset requests and the chat requests that start a
\* job; the jobs are launched and print nothing
ResetNext ==
  \/ Start
  \/ HandleChatSpawn(<<>>, TRUE)
  \/ \E p \in 1..MaxProcs, code \in ExitCodes : ChatProcExit(p, code)
  \/ \E id \in 1..MaxClients : Disconnect(id)
  \/ \E id \in 1..MaxClients : CloseCallback(id)
  \/ HandleReset
  \/ \E s \in 1..MaxStops, delivered \in BOOLEAN : ResetStopTimeout(s, delivered)
  \/ \E s \in 1..MaxStops : ResetResume(s)

ResetSpec == Init /\ [][ResetNext]_vars

-----------------------------------------------------------------------------
(* Claims *)

Running == {p \in 1..MaxProcs : procs[p].state = "running"}

\* C1: at any time at most one spawned agent process has not yet exited.
C1_AtMostOneProcess == Cardinality(Running) <= 1

\* C2: a sendMessage made while isBusy() is true fails with Busy, spawns no
\* process and leaves the busy flag, the current process, the session token
\* and lastActivity as they were.
C2_BusySendChangesNothing ==
  [][(op'.name = "sendMessage" /\ IsBusy)
       => /\ op'.result = "Busy"
          /\ cm' = cm
          /\ nSpawned' = nSpawned
          /\ procs' = procs]_vars

C2_BusySendRejected ==
  /\ op.name = "sendMessage"
  /\ op.result = "Busy"
  /\ IsBusy
  /\ Running # {}

IsExitError(ev) ==
  ev.type = "error" /\ ev.error \in {ExitMessage(c) : c \in ExitCodes}

\* C3: the exit of a job's process emits exactly one event for that job,
\* `completed` after code 0 and `error` naming the code after code 1, and
\* isBusy() is false right after it; no other callback or operation emits a
\* `completed` event or an exit `error`.
C3_ExitEmitsOneTerminalEvent ==
  IF op.name = "exit"
  THEN /\ ~IsBusy
       /\ Len(emitted) = 1
       /\ emitted[1].job = op.proc
       /\ op.result = "0" => emitted[1].ev = CompletedEvent
       /\ op.result = "1"
            => emitted[1].ev = ErrorEvent("Claude exited with code 1")
  ELSE \A i \in 1..Len(emitted) :
         emitted[i].ev.type # "completed" /\ ~IsExitError(emitted[i].ev)

C3_ExitedWithZero ==
  /\ op.name = "exit"
  /\ op.result = "0"
  /\ emitted = Tag(op.proc, "exit", <<CompletedEvent>>)
  /\ ~IsBusy

\* C4: no event decoded from a job's stdout is emitted after the job's
\* terminal event, that is after the exit of its process was handled.
C4_NoDecodedEventAfterTerminal ==
  (op.name = "data" /\ emitted # <<>>) => procs[op.proc].state = "running"

\* C5: once a well-formed output has been fed in chunks, the events decoded
\* chunk by chunk are the events decoded from the whole output in one call.
C5_ChunkBoundaryInvariance ==
  decRest = <<>> => cmDecoded = ParseJsonStream(decWhole, Null).events

\* C6: the stored session id is the one carried by the most recent parsed
\* record that carried one since the last reset (none: no session id), and an
\* accepted sendMessage passes exactly it after --continue (none: no flag).
C6_TokenIsLastCarried ==
  /\ cm.sessionId = tokenSeen
  /\ (op.name = "sendMessage" /\ op.result = "spawned")
       => ContinueToken(op.args) = tokenSeen

C6_ContinuesAbc ==
  /\ op.name = "sendMessage"
  /\ op.result = "spawned"
  /\ tokenSeen = "abc"
  /\ op.args = BaseArgs \o <<"--continue", "abc">>

\* C7: the first sendMessage accepted after restart() has resolved passes
\* no --continue flag, whatever callbacks ran in between.
C7_NoContinueAfterRestart ==
  [][(cleared /\ op'.name = "sendMessage" /\ op'.result = "spawned")
       => ~HasContinue(op'.args)]_vars

\* a failure of the process was handled in this step: an exit with a nonzero
\* code, a spawn failure (reported by the "error" callback or thrown by
\* spawn), or a signal that could not be delivered
FailureStep ==
  \/ op'.name = "exit" /\ op'.result # "0"
  \/ op'.name = "error"
  \/ op'.result = "EPERM"
  \/ op'.result = "SpawnThrow"

\* C8: a process exit with nonzero status, a spawn failure and a runtime
\* process error leave the session id as it was.
C8_FailureKeepsToken == [][FailureStep => cm'.sessionId = cm.sessionId]_vars

C8_FailedWithToken ==
  /\ op.name = "exit"
  /\ op.result = "1"
  /\ cm.sessionId # Null

\* what a subscriber registered with this id must have received
RECURSIVE FramesFrom(_, _)
FramesFrom(id, i) ==
  IF i > Len(bcast) THEN <<>>
  ELSE (IF bcast[i].to \in {0, id} THEN <<Frame(bcast[i].ev, i)>> ELSE <<>>)
       \o FramesFrom(id, i + 1)

Expected(id) ==
  <<Frame(ConnectedEvent(id), 0)>> \o FramesFrom(id, sinks[id].since + 1)

Live(id) == Registered(clients, id) /\ sinks[id].conn = "live"

\* C9: a registered subscriber whose connection is up has received, after
\* its acknowledgement, every event broadcast since its registration, in
\* the order of the broadcasts.
C9_SubscriberReceivesAllInOrder ==
  \A id \in 1..MaxClients : Live(id) => sinks[id].received = Expected(id)

C9_TwoSubscribersTwoEvents ==
  \E id, later \in 1..MaxClients :
    /\ Live(id) /\ Live(later)
    /\ sinks[id].since = 0 /\ Len(sinks[id].received) = 3
    /\ sinks[later].since = 1 /\ Len(sinks[later].received) = 2

\* C10: when the push to a sink fails during a broadcast, broadcast does not
\* raise, the failing subscriber is removed and its sink ended, and every
\* other subscriber whose connection is up has received the event.
C10_DeadSinkIsRemovedOthersServed ==
  sseOp.name = "broadcast"
    => /\ ~sseOp.raised
       /\ \A id \in sseOp.threw :
            ~Registered(clients, id) /\ sinks[id].ended
       /\ \A i \in 1..Len(sseOp.targets) :
            LET id == sseOp.targets[i] IN
              (id \notin sseOp.threw /\ sinks[id].conn = "live")
                => /\ Registered(clients, id)
                   /\ sinks[id].received[Len(sinks[id].received)]
                        = Frame(bcast[Len(bcast)].ev, Len(bcast))

C10_ThreeSubscribersOneDead ==
  /\ sseOp.name = "broadcast"
  /\ Len(sseOp.targets) = 3
  /\ Cardinality(sseOp.threw) = 1
  /\ Len(clients) = 2
  /\ \A i \in 1..2 :
       /\ sinks[clients[i]].conn = "live"
       /\ sinks[clients[i]].received[Len(sinks[clients[i]].received)].n
            = Len(bcast)

\* a process failure was reported in the last step: a spawn that threw or
\* failed, or a signal that could not be delivered
FailureReported ==
  \/ op.name = "error"
  \/ op.result = "EPERM"
  \/ op.result = "SpawnThrow"

\* C12: when the process cannot be spawned or reports a runtime error, an
\* `error` event is emitted and isBusy() is false.
C12_FailureEmitsErrorAndClearsBusy ==
  FailureReported
    => /\ ~IsBusy
       /\ \E i \in 1..Len(emitted) : emitted[i].ev.type = "error"

\* a stop() or restart() call has not resolved, or its caller has not
\* resumed yet
Pending(s) == stops[s].state \in {"waiting", "resuming"}

\* C13: every stop() or restart() call eventually resolves: from some point
\* on no call is left pending, whether its process exits, has exited, fails
\* or ignores the signals (a call made when no process was ever spawned
\* resolves at once and is never pending).
C13_StopResolves == <>[](\A s \in 1..MaxStops : ~Pending(s))

C13_ResolvedByTimeout ==
  /\ op.name = "resumed"
  /\ stops[1].state = "resolved"
  /\ stops[1].armed
  /\ procs[stops[1].proc].state = "running"

\* C14: when the grace period of a stop() call ends and the process the
\* call sent SIGTERM to is still running, the forced kill goes to that
\* process.
C14_ForcedKillGoesToStoppedProcess ==
  [][\A s \in 1..MaxStops :
       (/\ op'.name = "timeout"
        /\ stops[s].state = "waiting"
        /\ stops'[s].state = "resuming"
        /\ procs[stops[s].proc].state = "running")
         => op'.proc = stops[s].proc]_vars

\* a job is in flight: a spawned process has not exited or failed yet
InFlight == \E p \in 1..MaxProcs : procs[p].state \in {"running", "failed"}

\* C15: isBusy() is true if and only if a job is in flight.
C15_BusyIffInFlight == IsBusy <=> InFlight

\* C16: isAlive() is false before start() and true ever after.
C16_AliveOnceStarted == IsAlive <=> op.name # "init"

C16_AliveAfterStopTimeout ==
  /\ op.name = "timeout"
  /\ procs[1].state = "done"
  /\ IsAlive
  /\ ~IsBusy

\* C17: removeClient of an id that is not registered (never registered, or
\* removed before), called from outside or by the sink's own close callback,
\* leaves the subscriber set and every sink as they were (no second
\* res.end()) and raises nothing.
C17_RemoveClientIdempotent ==
  [][\A id \in 1..MaxClients :
       (/\ sseOp'.name \in {"removeClient", "close"}
        /\ sseOp'.targets = <<id>>
        /\ ~Registered(clients, id))
         => /\ clients' = clients
            /\ ~sseOp'.raised
            /\ sinks' = [sinks EXCEPT ![id].close =
                           IF sseOp'.name = "close" THEN "off" ELSE @]]_vars

C17_CloseAfterRemoval ==
  /\ sseOp.name = "close"
  /\ sseOp.removed = {}
  /\ sinks[sseOp.targets[1]].ends = 1
  /\ clients # <<>>

\* C18: the first frame a registered subscriber has received is the
\* `connected` acknowledgement carrying its own id, and no later frame of
\* any subscriber is an acknowledgement (of its own or of another
\* registration).
C18_ConnectedFirstAndOnlyToOwnSink ==
  \A id \in 1..MaxClients :
    Live(id)
      => /\ sinks[id].received # <<>>
         /\ sinks[id].received[1].ev.type = "connected"
         /\ sinks[id].received[1].ev.clientId = id
         /\ \A i \in 2..Len(sinks[id].received) :
              sinks[id].received[i].ev.type # "connected"

C18_SecondClientAcknowledged ==
  /\ sseOp.name = "addClient"
  /\ ~sseOp.raised
  /\ Len(clients) = 2
  /\ Live(clients[1]) /\ Live(clients[2])
  /\ Len(sinks[clients[1]].received) = 2
  /\ Len(sinks[clients[2]].received) = 1

RECURSIVE Flatten(_)
Flatten(seqs) == IF seqs = <<>> THEN <<>> ELSE Head(seqs) \o Flatten(Tail(seqs))

\* the events of the record on a line, content block by content block
EventsOfLine(line) ==
  IF Trim(line) = <<>> \/ ~JsonOk(line) THEN <<>>
  ELSE LET d == JsonParse(line) IN
         IF d.type = "assistant" /\ d.blocks # Null
         THEN Flatten([j \in 1..Len(d.blocks) |->
                         ContentBlockToEvent(d.blocks[j])])
         ELSE RecordEvents(d)

\* the events of a chunk in the order of its records
EventsInRecordOrder(chunk) ==
  Flatten([i \in 1..Len(Split(chunk)) |-> EventsOfLine(Split(chunk)[i])])

\* the events of the last Len(evs) pushes
LastPushes(n) ==
  [i \in 1..n |-> bcast[Len(bcast) - n + i].ev]

\* C11: the events a stdout chunk makes the manager emit are the events of
\* its records in record order, content blocks in block order; they are
\* broadcast in that order after the events emitted before (of this job or
\* of an earlier one), and every subscriber whose connection is up has
\* received the broadcasts since its registration in that order.
C11_EmissionInDecodeOrder ==
  /\ (op.name = "data" /\ sseOp.name = "event")
       => /\ emitted = Tag(op.proc, "stdout", EventsInRecordOrder(op.args))
          /\ Len(bcast) >= Len(emitted)
          /\ LastPushes(Len(emitted)) = EventsInRecordOrder(op.args)
  /\ \A id \in 1..MaxClients : Live(id) => sinks[id].received = Expected(id)

C11_SecondJobDecoded ==
  /\ op.name = "data" /\ sseOp.name = "event"
  /\ op.proc = 2
  /\ Len(emitted) = 3
  /\ Live(1) /\ Live(2)
  /\ Len(sinks[1].received) = 8
  /\ Len(sinks[2].received) = 4

\* C19: when the sendMessage of a chat request throws, the subscriber the
\* request registered has received `connected` and then the `error` event
\* and is removed and ended; the other subscribers and their sinks are as
\* before, and no process is spawned.
C19_RefusedChatGetsErrorAlone ==
  [][(sseOp'.name = "chat" /\ op'.result \in {"Busy", "SpawnThrow"})
       => LET id == nClients' IN
            /\ Len(sseOp'.got) = 2
            /\ sseOp'.got[1].ev = [type |-> "connected", clientId |-> id]
            /\ sseOp'.got[2].ev =
                 ErrorEvent(IF op'.result = "Busy" THEN BusyMessage
                            ELSE SpawnThrowMessage)
            /\ clients' = clients
            /\ ~Registered(clients', id)
            /\ sinks'[id].ends = 1
            /\ \A o \in 1..MaxClients : o # id => sinks'[o] = sinks[o]
            /\ procs' = procs
            /\ nSpawned' = nSpawned]_vars

C19_BusyChatRefused ==
  /\ sseOp.name = "chat"
  /\ op.result = "Busy"
  /\ Live(1)
  /\ sseOp.targets = <<2>>
  /\ procs[1].state = "running"

\* C20: after the exit of a job's process was handled, the subscriber of
\* the request that started the job is no longer registered.
C20_ExitClosesSubscriber ==
  (op.name = "exit" /\ sseOp.name = "event")
    => \A id \in 1..MaxClients :
         sinks[id].job = op.proc => ~Registered(clients, id)

\* C21: the `status` event with status `reset` is broadcast in the step in
\* which restart() completes and in no other; that step leaves the session
\* id cleared, pushes the event once, and every registered subscriber whose
\* connection is up receives it, whatever request registered it.
RestartCompletes ==
  /\ \/ op'.name = "resumed"
     \/ op'.name = "restart" /\ op'.result = "resolved"
  /\ <<op, bcast, stops>>' # <<op, bcast, stops>>

ResetPushed ==
  /\ Len(bcast') > Len(bcast)
  /\ bcast'[Len(bcast')].ev = ResetEvent

C21_ResetBroadcastsAfterRestart ==
  [][/\ RestartCompletes <=> ResetPushed
     /\ ResetPushed =>
          /\ cm'.sessionId = Null
          /\ bcast' = Append(bcast, [ev |-> ResetEvent, to |-> 0])
          /\ clients' = clients
          /\ \A id \in 1..MaxClients :
               IF Live(id)
               THEN sinks'[id].received =
                      Append(sinks[id].received,
                             Frame(ResetEvent, Len(bcast) + 1))
               ELSE sinks'[id] = sinks[id]]_vars

C21_ResetReachedTwoSubscribers ==
  /\ sseOp.name = "reset"
  /\ op.name = "resumed"
  /\ sseOp.targets = <<1, 2>>
  /\ \A id \in {1, 2} :
       /\ Live(id)
       /\ sinks[id].received[Len(sinks[id].received)] =
            Frame(ResetEvent, Len(bcast))

\* C22: a chat request answered 400 had no message, one answered 503 had a
\* message and found the manager not alive; neither registers a subscriber,
\* spawns a process or changes the manager.
C22_RejectedChatChangesNothing ==
  [][(op' # op /\ op'.name = "handleChat")
       => /\ op'.result = "400" <=> OrElse(op'.args[1], Null) = Null
          /\ op'.result = "503" <=>
               (OrElse(op'.args[1], Null) # Null /\ ~cm.isStarted)
          /\ clients' = clients
          /\ sinks' = sinks
          /\ nClients' = nClients
          /\ procs' = procs
          /\ nSpawned' = nSpawned
          /\ cm' = cm
          /\ stops' = stops]_vars

C22_RejectedWhileServing ==
  /\ op.name = "handleChat"
  /\ op.result = "400"
  /\ Live(1)
  /\ procs[1].state = "running"

\* the event types of the wire format
WireTypes ==
  {"connected", "thinking", "tool_use", "tool_result", "message", "status",
   "error", "completed"}

\* C23: every frame a subscriber has received carries an event whose type
\* is one of connected, thinking, tool_use, tool_result, message, status,
\* error, completed.
C23_DeliveredTypesClosed ==
  \A id \in 1..MaxClients :
    \A i \in 1..Len(sinks[id].received) :
      sinks[id].received[i].ev.type \in WireTypes

\* the ChildProcess objects spawn() has returned
Spawned == {p \in 1..MaxProcs : procs[p].state # "none"}

C25_AtMostOnceAndNothingAfterGone ==
  [][\A id \in 1..MaxClients :
       /\ \A i, j \in 1..Len(sinks'[id].received) :
            i < j => sinks'[id].received[i].n < sinks'[id].received[j].n
       /\ ~Registered(clients', id) => sinks'[id].conn # "live"
       /\ sinks[id].conn = "gone"
            => /\ sinks'[id].conn = "gone"
               /\ sinks'[id].received = <<>>]_vars

C25_DisconnectedMissesBroadcast ==
  /\ sseOp.name = "broadcast"
  /\ sseOp.targets = <<1, 2>>
  /\ sseOp.threw = {}
  /\ sinks[1].conn = "gone"
  /\ sinks[1].received = <<>>
  /\ Live(2)
  /\ Len(sinks[2].received) = 3

\* C26: closeAll() calls res.end() once on the sink of every registered
\* client, touches no other sink and leaves no client registered; a
\* broadcast made while no client is registered reaches no sink.
C26_CloseAllEmptiesSubscribers ==
  [][/\ sseOp'.name = "closeAll" =>
          /\ clients' = <<>>
          /\ \A id \in 1..MaxClients :
               IF Registered(clients, id)
               THEN /\ sinks'[id].ended
                    /\ sinks'[id].ends = sinks[id].ends + 1
                    /\ sinks'[id].conn = "gone"
               ELSE sinks'[id] = sinks[id]
     /\ (sseOp'.name = "broadcast" /\ clients = <<>>) =>
          /\ clients' = <<>>
          /\ sinks' = sinks]_vars

C26_TwoSinksClosed ==
  /\ sseOp.name = "closeAll"
  /\ sseOp.targets = <<1, 2>>
  /\ clients = <<>>
  /\ sinks[1].ended
  /\ sinks[2].ended
  /\ Len(bcast) = 1

\* the events the specification gives for the content blocks of a line
\* with an assistant record
RECURSIVE BlockEvents(_)
BlockEvents(toks) ==
  IF toks = <<>> THEN <<>>
  ELSE (CASE Head(toks) = "t" -> <<[type |-> "thinking", content |-> "x"]>>
          [] Head(toks) = "x" -> <<[type |-> "message", content |-> "y"]>>
          [] Head(toks) = "u" -> <<[type |-> "tool_use", name |-> "n"]>>
          [] OTHER -> <<>>) \o BlockEvents(Tail(toks))

\* C27: an assistant record with a list of content blocks is decoded into
\* one event per thinking, text or tool_use block, in the order of the
\* blocks, and into nothing for a block of another kind.
C27_OneEventPerBlockInOrder ==
  (decRest = <<>> /\ decWhole \in AssistantLines)
    => cmDecoded = BlockEvents(SubSeq(decWhole, 3, Len(decWhole) - 2))

C27_ThinkingThenText ==
  /\ decRest = <<>>
  /\ decWhole = <<LB, "B", "t", "i", "x", RB, NL>>
  /\ cmDecoded = <<[type |-> "thinking", content |-> "x"],
                   [type |-> "message", content |-> "y"]>>

\* the lines of a text that JSON.parse accepts, and its blank lines
RECURSIVE KeptLines(_, _)
KeptLines(lines, i) ==
  IF i >= Len(lines) THEN <<>>
  ELSE (IF Trim(lines[i]) = <<>> \/ JsonOk(lines[i])
        THEN lines[i] \o <<NL>> ELSE <<>>) \o KeptLines(lines, i + 1)

Kept(text) == KeptLines(Split(text), 1)

Decoded(evs) == SelectSeq(evs, LAMBDA e : e.type # "raw_output")

\* C28: once an output has been fed, in whatever chunks of whole lines, the
\* events decoded and the session id stored are those of the output without
\* its lines that fail to parse, for ClaudeManager and for OutputParser,
\* and the busy flag is as it was.
C28_FailingLineIsSkipped ==
  decRest = <<>> =>
    /\ cmDecoded = ParseJsonStream(Kept(decWhole), Null).events
    /\ cm.sessionId = ParseJsonStream(Kept(decWhole), Null).sessionId
    /\ Decoded(opDecoded) = OPParseJsonStream(Kept(decWhole), <<>>).events
    /\ ~cm.isProcessing

C28_FailingLineBetweenRecords ==
  /\ decRest = <<>>
  /\ decWhole = <<LB, "a", "M", RB, NL, LB, "c", "M", NL, LB, "E", RB, NL>>
  /\ cmDecoded = <<ContentEvent("message", "hi"), ErrorEvent("boom")>>
  /\ cm.sessionId = "abc"

\* C29: a line with one record that is neither an assistant record with
\* content blocks, nor a user record with a tool_result block, nor a record
\* of type error is decoded into no event.
C29_OtherShapesDropped ==
  (/\ decRest = <<>>
   /\ decWhole \in MixedLines
   /\ JsonOk(decWhole)
   /\ LET d == JsonParse(decWhole) IN
        /\ ~(d.type = "assistant" /\ d.blocks # Null)
        /\ ~(d.type = "user" /\ d.blocks # Null)
        /\ d.type # "error" /\ d.error = Null)
    => cmDecoded = <<>>

\* C30: for every chunk handed to a parser after its reset(), parse()
\* returns the events a parser constructed at the time of the reset returns
\* for the same chunks.
C30_ResetParserLikeFresh ==
  twin.active => returned.parser = returned.twin

C30_HalfLineDroppedByReset ==
  /\ twin.active
  /\ twin.had
  /\ parser.isJsonMode
  /\ returned.parser =
       <<ErrorEvent("boom"), RawOutputEvent(<<LB, "E", RB, NL>>)>>

\* C31: in text mode, parse of a chunk that leaves a block unfinished
\* returns no event, and parse of the chunk that finishes a block begun in
\* an earlier chunk returns exactly one event.
C31_PartialEventsBuffered ==
  [][(returned'.n = returned.n + 1 /\ ~parser.isJsonMode)
       => LET completed ==
                OPParseTextOutput(returned'.chunk, parser.buffer).events
          IN /\ (completed = <<>> /\ parser'.buffer # <<>>)
                  => Len(returned'.parser) = 0
             /\ (Len(completed) = 1 /\ parser.buffer # <<>>)
                  => Len(returned'.parser) = 1]_vars

\* C32: for every job at most one terminal event is emitted, whether its
\* process exits, cannot be spawned, reports an error or is stopped.
IsTerminal(e) == e.src \in {"exit", "error"}

C32_AtMostOneTerminalEvent ==
  [][\A i \in 1..Len(emitted') :
       (op' # op /\ IsTerminal(emitted'[i]))
         => ~procs[emitted'[i].job].failing]_vars

\* C33: the exit or error callback of an earlier job that runs while a later
\* job is in flight leaves isBusy() true and emits no terminal event.
C33_LateCallbackKeepsLaterJobBusy ==
  [][\A p \in 1..MaxProcs :
       (/\ op' # op
        /\ op'.name \in {"exit", "error"}
        /\ op'.proc = p
        /\ p < cm.currentProcess
        /\ procs[cm.currentProcess].state \in {"running", "failed"}
        /\ IsBusy)
         => /\ cm'.isProcessing
            /\ \A i \in 1..Len(emitted') : ~IsTerminal(emitted'[i])]_vars

\* C34: the signal the grace-period timeout of a stop() sends goes to the
\* process that was current when that stop() was called, never to one
\* spawned while the stop() was waiting.
C34_ForcedKillNeverHitsLaterJob ==
  [][\A s \in 1..MaxStops :
       (/\ op' # op
        /\ op'.name = "timeout"
        /\ stops[s].timer
        /\ ~stops'[s].timer
        /\ op'.proc # 0)
         => op'.proc <= stops[s].proc]_vars

\* C35: a stop() called when no job is in flight, also after an earlier
\* job's process has exited, sends no signal, does not enter the
\* grace-period wait and changes no state.
C35_IdleStopChangesNothing ==
  [][(/\ ~InFlight
      /\ op'.name = "stop"
      /\ op' # op \/ nStops' # nStops)
       => /\ op'.proc = 0
          /\ nStops' = nStops
          /\ stops' = stops
          /\ cm' = cm
          /\ procs' = procs]_vars

\* the restart() of a reset request that stopped job p has completed and the
\* `status` reset event has been broadcast
ResetDoneFor(p) ==
  /\ \E s \in 1..MaxStops :
       /\ stops[s].kind = "restart"
       /\ stops[s].proc = p
       /\ stops[s].state = "resolved"
  /\ \E i \in 1..Len(bcast) : bcast[i].ev = ResetEvent

\* C36: no event of a job stopped by a reset is broadcast after the `status`
\* reset event of that reset; its terminal event comes before.
C36_StoppedJobEventsBeforeReset ==
  [][\A p \in 1..MaxProcs :
       (/\ op' # op
        /\ op'.name \in {"exit", "error", "data"}
        /\ op'.proc = p
        /\ Len(bcast') > Len(bcast))
         => ~ResetDoneFor(p)]_vars

\* C37: no sink the manager has ended is still in the subscriber map, and
\* no id is registered twice.
C37_EndedSinksAreUnregistered ==
  /\ \A id \in 1..MaxClients : sinks[id].ended => ~Registered(clients, id)
  /\ \A i, j \in 1..Len(clients) : clients[i] = clients[j] => i = j

C37_EndedThreeWays ==
  /\ sseOp.name = "closeAll"
  /\ Len(sseOp.targets) = 1
  /\ clients = <<>>
  /\ \A id \in 1..MaxClients : sinks[id].ended /\ sinks[id].ends = 1

\* C38: when the write of the `connected` acknowledgement throws in
\* addClient, the exception reaches the caller, the sink is not registered
\* and the request sends no message to the agent: no process is spawned and
\* the manager is left as it was.
C38_FailedAcknowledgementRegistersNothing ==
  [][(nClients' = nClients + 1 /\ nClients' \in sseOp'.threw)
       => /\ sseOp'.raised
          /\ clients' = clients
          /\ ~Registered(clients', nClients')
          /\ op'.name = "addClient"
          /\ op'.result \in {"500", "none"}
          /\ cm' = cm
          /\ procs' = procs
          /\ nSpawned' = nSpawned
          /\ emitted' = <<>>
          /\ bcast' = bcast]_vars

C38_AcknowledgementFailedWhileServing ==
  /\ op.name = "addClient"
  /\ op.result = "500"
  /\ sseOp.raised
  /\ sseOp.threw = {2}
  /\ clients = <<1>>
  /\ Live(1)
  /\ procs[1].state = "running"
  /\ nSpawned = 1

\* C39: when every spawned process eventually exits or fails, the manager
\* never stays busy forever: whenever isBusy() is true it later becomes
\* false.
C39_NeverBusyForever == IsBusy ~> ~IsBusy

\* a sendMessage that spawned its process is followed by isBusy() false
SpawnedJobClearsBusy ==
  (op.name = "sendMessage" /\ op.result = "spawned") ~> ~IsBusy

=============================================================================
